---------------------------- MODULE Spec2Model ----------------------------
(***************************************************************************)
(* State-machine model of the retrieval core of ai-sdk-rag:                *)
(*   - the embedding cache and generateEmbedding (embedOne),               *)
(*   - findRelevantContent (retrieve) with keyword boosting.               *)
(*                                                                         *)
(* Texts are sequences of one-character strings.  Embedding vectors are    *)
(* opaque values ("v1", "v2"): the embedding model is an external          *)
(* function and may answer a repeated text with any vector, or fail.       *)
(* JavaScript is single threaded: a call runs without interruption from    *)
(* one await to the next, so every action below is one such run.           *)
(***************************************************************************)
EXTENDS Integers, Sequences, FiniteSets, TLC

(***************************************************************************)
(* Bounds of the model.                                                    *)
(***************************************************************************)
\* The code's CACHE_MAX_SIZE is 1000; the model runs the same code on a
\* cache scaled down to a few entries.
CACHE_MAX_SIZE == 2
\* Number of generateEmbedding calls that can be in flight at once.
MaxCalls == 2
\* Longest text the key-normalisation runs are fed.
MaxTextLen == 3

Calls == 1..MaxCalls

(***************************************************************************)
(* Characters and texts.                                                   *)
(***************************************************************************)
Chars == {"a", "A", " ", "\n", "\t"}

\* Texts the concurrent cache runs draw from.  Their keys are "", "a",
\* "b" and "a b".
Texts ==
  { <<" ">>, <<"A", "\n">>, <<"b">>, <<"a", "\n", "b">> }

\* Every text of at most MaxTextLen characters over Chars.
AllTexts == UNION { [1..n -> Chars] : n \in 0..MaxTextLen }

\* Results the external embedding model can produce.
Vectors == {"v1", "v2"}

(***************************************************************************)
(* String functions of the JavaScript runtime, as generateEmbedding uses   *)
(* them.                                                                   *)
(***************************************************************************)
\* String.prototype.replaceAll("\n", " ")
ReplaceAllNewline(s) ==
  [i \in 1..Len(s) |-> IF s[i] = "\n" THEN " " ELSE s[i]]

UpperLetters == <<"A", "B", "C", "D", "E", "F", "G", "H", "I", "J", "K",
                  "L", "M", "N", "O", "P", "Q", "R", "S", "T", "U", "V",
                  "W", "X", "Y", "Z">>
LowerLetters == <<"a", "b", "c", "d", "e", "f", "g", "h", "i", "j", "k",
                  "l", "m", "n", "o", "p", "q", "r", "s", "t", "u", "v",
                  "w", "x", "y", "z">>

UpperSet == { UpperLetters[k] : k \in 1..26 }
LowerOf == [u \in UpperSet |->
              LowerLetters[CHOOSE k \in 1..26 : UpperLetters[k] = u]]

LowerChar(ch) == IF ch \in UpperSet THEN LowerOf[ch] ELSE ch

\* String.prototype.toLowerCase()
ToLowerCase(s) == [i \in 1..Len(s) |-> LowerChar(s[i])]

\* White space as String.prototype.trim() sees it.
IsWhiteSpace(ch) == ch \in {" ", "\n", "\t"}

RECURSIVE TrimStart(_)
TrimStart(s) ==
  IF s # <<>> /\ IsWhiteSpace(Head(s)) THEN TrimStart(Tail(s)) ELSE s

RECURSIVE TrimEnd(_)
TrimEnd(s) ==
  IF s # <<>> /\ IsWhiteSpace(s[Len(s)])
  THEN TrimEnd(SubSeq(s, 1, Len(s) - 1))
  ELSE s

\* String.prototype.trim()
Trim(s) == TrimEnd(TrimStart(s))

\* const input = value.replaceAll("\n", " ");
EmbedInput(value) == ReplaceAllNewline(value)

\* const cacheKey = input.toLowerCase().trim();
\* (Faulty variant: the key is not lower-cased.)
CacheKeyNoLower(value) == Trim(EmbedInput(value))
CacheKey(value) == Trim(ToLowerCase(EmbedInput(value)))

(***************************************************************************)
(* The JavaScript Map behind embeddingCache: a sequence of entries in      *)
(* insertion order.                                                        *)
(***************************************************************************)
MapKeys(m) == [i \in 1..Len(m) |-> m[i].key]

MapHas(m, k) == \E i \in 1..Len(m) : m[i].key = k

MapIndex(m, k) == CHOOSE i \in 1..Len(m) : m[i].key = k

MapGet(m, k) == m[MapIndex(m, k)].value

RemoveAt(m, i) == SubSeq(m, 1, i - 1) \o SubSeq(m, i + 1, Len(m))

\* Map.prototype.delete
MapDelete(m, k) == IF MapHas(m, k) THEN RemoveAt(m, MapIndex(m, k)) ELSE m

\* (Faulty variant: a set of an existing key moves it to the end.)
MapSetMoveToEnd(m, k, v) ==
  Append(MapDelete(m, k), [key |-> k, value |-> v])
\* (Faulty variant: a set of an existing key keeps the old value.)
MapSetKeepOld(m, k, v) ==
  IF MapHas(m, k) THEN m ELSE Append(m, [key |-> k, value |-> v])
\* Map.prototype.set: an existing key keeps its place and takes the new
\* value, a new key goes to the end.
MapSet(m, k, v) ==
  IF MapHas(m, k)
  THEN [m EXCEPT ![MapIndex(m, k)].value = v]
  ELSE Append(m, [key |-> k, value |-> v])

\* embeddingCache.keys().next().value: the first key, undefined on an
\* empty map.
Undefined == <<"undefined">>
MapFirstKey(m) == IF Len(m) = 0 THEN Undefined ELSE m[1].key

\* Truthiness of that value in `if (firstKey)`: undefined and the empty
\* string are falsy.
Truthy(k) == k # Undefined /\ k # <<>>

\* Lines 195-201: enforce the cache size limit after a set.
EnforceLimit(m) ==
  IF Len(m) > CACHE_MAX_SIZE
  THEN LET firstKey == MapFirstKey(m)
       IN  IF Truthy(firstKey) THEN MapDelete(m, firstKey) ELSE m
  ELSE m

\* Lines 191-202: the cache after embed() resolved with `embedding`.
CachePut(m, enabled, value, embedding) ==
  IF enabled
  THEN EnforceLimit(MapSet(m, CacheKey(value), embedding))
  ELSE m

(***************************************************************************)
(* State.                                                                  *)
(***************************************************************************)
VARIABLES
  cache,        \* embeddingCache
  cacheEnabled, \* RAG_CONFIG.CACHE_ENABLED
  pc,           \* pc[c]: "idle" or "awaitEmbed" (suspended in embed())
  callValue,    \* callValue[c]: the argument of the suspended call
  last,         \* the step just taken: what it was and what it returned
  round,        \* position of the two-call key-normalisation run
  corpus,       \* rows of the embeddings table joined with resources
  opts,         \* options the caller passes to findRelevantContent
  queryVec,     \* userQueryEmbedded of the latest findRelevantContent call
  ret           \* how the latest findRelevantContent call ended

\* What the retrieval engine adds to the state.
rvars == <<corpus, opts, queryVec, ret>>

VARIABLES
  doc,             \* the text handed to generateChunks
  chunks,          \* what generateChunks returned for it
  resourcesTable,  \* rows of the resources table
  embeddingsTable, \* rows of the embeddings table
  ingest,          \* the createResource call: position, input, outcome
  kwQuery,         \* the query handed to extractKeywords
  kwResult,        \* what extractKeywords returned for it
  divResults,      \* the result list handed to calculateDiversity
  divResult,       \* what calculateDiversity returned for it
  ev               \* the evaluateRAGPerformance call: loop state, metrics

\* What the chunker, ingestion, the keyword extractor and the evaluation
\* metrics add to the state.
cvars == <<doc, chunks>>
ivars == <<resourcesTable, embeddingsTable, ingest>>
kvars == <<kwQuery, kwResult>>
dvars == <<divResults, divResult>>

VARIABLES
  limiter,         \* the SearchRateLimiter: its map, the clock, its calls
  search,          \* the searchWeb call: position, attempts, outcome
  admin,           \* the admin API request: position, inputs, answer
  win,             \* the loop of createSlidingWindowChunks
  settingsTable,   \* rows of the settings table
  setCalls,        \* setCalls[c]: the setSetting call of caller c
  chatLogs,        \* rows of the chat_logs table
  traversal        \* the traversal of the logs with getChatLogsCursor

\* What the services around the retrieval core and the stepwise runs add
\* to the state.
lvars == <<chatLogs, traversal>>
wvars == <<limiter, search, admin, win, settingsTable, setCalls, lvars>>

\* Everything besides the embedding cache and the retrieval engine.
xvars == <<cvars, ivars, kvars, dvars, ev, wvars>>

vars == <<cache, cacheEnabled, pc, callValue, last, round, rvars, xvars>>

\* The embedding cache, the retrieval engine, the chunker, ingestion, the
\* keyword extractor and the evaluation metrics.
coreVars == <<cache, cacheEnabled, pc, callValue, last, round, rvars,
              cvars, ivars, kvars, dvars, ev>>

NoText == <<>>

\* Marks a step that does not directly follow a completed miss.
NoMiss == <<"none">>

\* The record of a step: the operation, its text, what the caller got, and
\* for a cache hit the text of the miss that completed in the step before
\* it (NoMiss when the step before was something else).
Step(op, value, result) ==
  [op |-> op, text |-> value, result |-> result,
   prev |-> IF op = "hit" /\ last.op = "miss" THEN last.text ELSE NoMiss]

(***************************************************************************)
(* generateEmbedding, lines 175-205.                                       *)
(***************************************************************************)
\* Lines 175-189: from the call to the cache hit, or to the await of
\* embed() on a miss.
GenerateEmbeddingCall(c, value) ==
  /\ pc[c] = "idle"
  /\ LET cacheKey == CacheKey(value)
     IN  IF cacheEnabled /\ MapHas(cache, cacheKey)
         THEN /\ last' = Step("hit", value, MapGet(cache, cacheKey))
              /\ UNCHANGED <<pc, callValue>>
         ELSE /\ pc' = [pc EXCEPT ![c] = "awaitEmbed"]
              /\ callValue' = [callValue EXCEPT ![c] = value]
              /\ last' = Step("call", value, "pending")
  /\ UNCHANGED <<cache, cacheEnabled>>

\* Lines 191-204: embed() resolved with `embedding`.
EmbedResolved(c, embedding) ==
  /\ pc[c] = "awaitEmbed"
  /\ cache' = CachePut(cache, cacheEnabled, callValue[c], embedding)
  /\ pc' = [pc EXCEPT ![c] = "idle"]
  /\ callValue' = [callValue EXCEPT ![c] = NoText]
  /\ last' = Step("miss", callValue[c], embedding)
  /\ UNCHANGED cacheEnabled

\* (Faulty variant: a failed embed() leaves a vector in the cache.)
EmbedRejectedCachesPartial(c) ==
  /\ pc[c] = "awaitEmbed"
  /\ cache' = MapSet(cache, CacheKey(callValue[c]), "v1")
  /\ pc' = [pc EXCEPT ![c] = "idle"]
  /\ callValue' = [callValue EXCEPT ![c] = NoText]
  /\ last' = Step("fail", callValue[c], "rejected")
  /\ UNCHANGED cacheEnabled
\* embed() rejected (failure or timeout): the exception leaves
\* generateEmbedding at line 186.
EmbedRejected(c) ==
  /\ pc[c] = "awaitEmbed"
  /\ pc' = [pc EXCEPT ![c] = "idle"]
  /\ callValue' = [callValue EXCEPT ![c] = NoText]
  /\ last' = Step("fail", callValue[c], "rejected")
  /\ UNCHANGED <<cache, cacheEnabled>>

\* clearEmbeddingCache, lines 210-213.
ClearEmbeddingCache ==
  /\ cache' = <<>>
  /\ last' = Step("clear", NoText, "none")
  /\ UNCHANGED <<cacheEnabled, pc, callValue>>

\* No findRelevantContent call has been made.
NoOptions == [similarityThreshold |-> 0, topK |-> 0, finalResults |-> 0,
              useKeywordBoost |-> FALSE, keywords |-> <<>>,
              documentType |-> "", title |-> <<>>,
              dateFrom |-> 0, dateTo |-> 0]
NoVector == "none"
NoReturn == [status |-> "none", end |-> "none", results |-> <<>>]

\* The retrieval engine is not part of a run.
RetrievalUnused ==
  /\ corpus = {}
  /\ opts = NoOptions
  /\ queryVec = NoVector
  /\ ret = NoReturn

\* generateChunks has not been called.
NoChunks == [done |-> FALSE, list |-> <<>>]

\* The chunker is not part of a run.
ChunkerUnused ==
  /\ doc = <<>>
  /\ chunks = NoChunks

\* No createResource call has been made.
NoIngest == [pc |-> "idle", content |-> <<>>, resourceId |-> 0,
             data |-> <<>>, outcome |-> "none", end |-> "none",
             calls |-> 0]

\* Ingestion is not part of a run.
IngestUnused ==
  /\ resourcesTable = {}
  /\ embeddingsTable = {}
  /\ ingest = NoIngest

\* extractKeywords has not been called.
NoKeywords == [done |-> FALSE, list |-> <<>>]

\* The keyword extractor is not part of a run.
KeywordsUnused ==
  /\ kwQuery = <<>>
  /\ kwResult = NoKeywords

\* calculateDiversity has not been called.
NoDiversity == [done |-> FALSE, num |-> 0, den |-> 1]

\* The diversity metric is not part of a run.
DiversityUnused ==
  /\ divResults = <<>>
  /\ divResult = NoDiversity

\* No evaluateRAGPerformance call has been made.
NoMetrics == [minSimilarity |-> [num |-> 0, den |-> 1],
              maxSimilarity |-> [num |-> 0, den |-> 1],
              totalQueries |-> 0, queriesWithNoResults |-> 0,
              queriesWithLowConfidence |-> 0]
NoEvaluate == [pc |-> "idle", testQueries |-> <<>>, i |-> 0,
               similarityScores |-> <<>>, resultCounts |-> <<>>,
               queriesWithNoResults |-> 0, queriesWithLowConfidence |-> 0,
               returned |-> <<>>, metrics |-> NoMetrics]

\* The evaluation is not part of a run.
EvaluateUnused == ev = NoEvaluate

\* A SearchRateLimiter just constructed: an empty map, the clock at 0, no
\* checkLimit call made.
NoLimiter == [limits |-> <<>>, now |-> 0, calls |-> <<>>]

\* No searchWeb call has been made.
NoSearch == [pc |-> "idle", maxResults |-> 0, attempt |-> 0,
             lastError |-> "null", sleep |-> 0, page |-> 0,
             attempts |-> <<>>,
             returned |-> <<>>]

\* No request to the admin API has been made.
NoAdmin == [pc |-> "idle", secret |-> "secure", route |-> "none",
            cookie |-> "absent", input |-> "none", status |-> 0,
            accesses |-> <<>>]

\* createSlidingWindowChunks has not been called.
NoWindow == [pc |-> "idle", sentences |-> <<>>, i |-> 0,
             w |-> [chunks |-> <<>>, currentChunk |-> <<>>,
                    currentLength |-> 0],
             flushed |-> FALSE]

\* The settings store is not part of a run.
SettingsUnused ==
  /\ settingsTable = {}
  /\ setCalls = <<>>

\* No call of getChatLogsCursor has been made.
NoTraversal == [pc |-> "idle", start |-> 0, cursor |-> 0,
                visited |-> <<>>, calls |-> 0]

\* The chat logs are not part of a run.
LogsUnused ==
  /\ chatLogs = {}
  /\ traversal = NoTraversal

\* None of the services is part of a run.
ServicesUnused ==
  /\ limiter = NoLimiter
  /\ search = NoSearch
  /\ admin = NoAdmin
  /\ win = NoWindow
  /\ SettingsUnused
  /\ LogsUnused

\* The embedding cache with nothing in it and no call in progress.
CacheAtRest ==
  /\ cache = <<>>
  /\ pc = [c \in Calls |-> "idle"]
  /\ callValue = [c \in Calls |-> NoText]
  /\ last = [op |-> "none", text |-> NoText, result |-> "none",
             prev |-> NoMiss]
  /\ round = "free"

(***************************************************************************)
(* The retrieval engine: findRelevantContent, lines 260-341, and           *)
(* applyKeywordBoosting, lines 347-372.                                    *)
(*                                                                         *)
(* Similarities and scores are exact numbers in units of 1/10000 (0.3 is   *)
(* 3000); the weights are in tenths.  The code computes in IEEE doubles;   *)
(* the model computes the same formulas exactly.                           *)
(***************************************************************************)
SIMILARITY_THRESHOLD == 3000
TOP_K_RESULTS == 10
FINAL_RESULTS == 4
VECTOR_WEIGHT == 7
KEYWORD_WEIGHT == 3
\* boost += matches * 0.1
MATCH_BOOST == 1000
\* Math.min(boost, 0.3)
BOOST_CAP == 3000

Min(a, b) == IF a <= b THEN a ELSE b

\* A row of embeddings joined with its resource.  sim[v] is the row's
\* cosine similarity to the query vector v, as the vector store computes
\* it.
ChunkRow(id, content, s1, s2, resourceId, title, documentType, createdAt) ==
  [id |-> id, content |-> content, sim |-> [v \in Vectors |->
                                             IF v = "v1" THEN s1 ELSE s2],
   resourceId |-> resourceId, title |-> title,
   documentType |-> documentType, createdAt |-> createdAt]

Pool ==
  { ChunkRow(1, <<"a", "b">>, 9000, 4000, "r1", <<"a">>, "lei", 1),
    ChunkRow(2, <<"a", "A", "a">>, 4000, 4000, "r1", <<"a">>, "lei", 1),
    ChunkRow(3, <<"b">>, 5000, 3500, "r2", <<"a", "b">>, "decreto", 2),
    ChunkRow(4, <<"b", "a">>, 3000, 5000, "r3", <<"b">>, "lei", 3) }

\* The corpora a run can start from: empty, the two rows of similarity
\* 0.9 and 0.4, three rows, all rows.
Corpora ==
  { {},
    {r \in Pool : r.id \in {1, 2}},
    {r \in Pool : r.id \in {2, 3, 4}},
    Pool }

\* Contiguous occurrence of `sub` in `s` (SQL LIKE '%sub%').
Contains(s, sub) ==
  \E i \in 0..(Len(s) - Len(sub)) :
    \A j \in 1..Len(sub) : s[i + j] = sub[j]

\* Lines 280-297: the metadata filters; an option that is not given
\* ("", <<>>, 0) adds no filter.
PassesFilters(r, o) ==
  /\ o.documentType # "" => r.documentType = o.documentType
  /\ o.title # <<>> => Contains(r.title, o.title)
  /\ o.dateFrom # 0 => r.createdAt >= o.dateFrom
  /\ o.dateTo # 0 => r.createdAt <= o.dateTo

\* Line 314, gt(similarity, similarityThreshold), and line 315.
Qualifying(rows, vec, o) ==
  { r \in rows : r.sim[vec] > o.similarityThreshold /\ PassesFilters(r, o) }

\* Line 318, orderBy(desc(similarity)): every enumeration of the rows in
\* non-increasing similarity; the store orders equal similarities as it
\* likes.
DescOrderings(rows, vec) ==
  LET n == Cardinality(rows)
  IN  { p \in [1..n -> rows] :
          /\ \A i, j \in 1..n : p[i] = p[j] => i = j
          /\ \A i \in 1..(n - 1) : p[i].sim[vec] >= p[i + 1].sim[vec] }

Take(s, n) == SubSeq(s, 1, Min(n, Len(s)))

\* Lines 301-309: the selected columns of a row.
Selected(r, vec) ==
  [id |-> r.id, content |-> r.content, similarity |-> r.sim[vec],
   resourceId |-> r.resourceId]

\* Lines 299-321: what the vector store can answer.
QueryAnswers(rows, vec, o) ==
  { [i \in 1..Min(o.topK, Cardinality(Qualifying(rows, vec, o))) |->
       Selected(p[i], vec)] :
    p \in DescOrderings(Qualifying(rows, vec, o), vec) }

\* One character of a RegExp source against one character of the content:
\* "." matches any character but a line break, a letter matches itself.
PatternCharMatches(pch, ch) ==
  IF pch = "." THEN ch # "\n" ELSE pch = ch

MatchAt(s, pattern, i) ==
  \A j \in 1..Len(pattern) : PatternCharMatches(pattern[j], s[i + j - 1])

\* (s.match(new RegExp(pattern, 'g')) || []).length: the matches found
\* left to right from position i, none overlapping.  The empty pattern
\* matches the empty string at every position.
RECURSIVE CountMatchesFrom(_, _, _)
CountMatchesFrom(s, pattern, i) ==
  IF pattern = <<>> THEN Len(s) + 2 - i
  ELSE IF i + Len(pattern) - 1 > Len(s) THEN 0
  ELSE IF MatchAt(s, pattern, i)
       THEN 1 + CountMatchesFrom(s, pattern, i + Len(pattern))
       ELSE CountMatchesFrom(s, pattern, i + 1)

\* Lines 352-360: the boost of a content.
RECURSIVE KeywordBoost(_, _)
KeywordBoost(content, keywords) ==
  IF keywords = <<>> THEN 0
  ELSE CountMatchesFrom(ToLowerCase(content),
                        ToLowerCase(Head(keywords)), 1) * MATCH_BOOST
       + KeywordBoost(content, Tail(keywords))

\* Lines 363-365.
HybridScore(similarity, boost) ==
  (similarity * VECTOR_WEIGHT + Min(boost, BOOST_CAP) * KEYWORD_WEIGHT) \div 10

\* Array.prototype.sort((a, b) => b.similarity - a.similarity): stable,
\* descending.
InsertDesc(sorted, x) ==
  LET k == Cardinality({ i \in 1..Len(sorted) :
                           sorted[i].similarity >= x.similarity })
  IN  SubSeq(sorted, 1, k) \o <<x>> \o SubSeq(sorted, k + 1, Len(sorted))

RECURSIVE SortDescFrom(_, _, _)
SortDescFrom(sorted, s, i) ==
  IF i > Len(s) THEN sorted
  ELSE SortDescFrom(InsertDesc(sorted, s[i]), s, i + 1)

\* (Faulty variant: the boosted results are not sorted again.)
SortDescBySimilarityNot(s) == s
SortDescBySimilarity(s) == SortDescFrom(<<>>, s, 1)

\* applyKeywordBoosting, lines 347-372.
ApplyKeywordBoosting(results, keywords) ==
  SortDescBySimilarity(
    [i \in 1..Len(results) |->
       [results[i] EXCEPT
          !.similarity = HybridScore(@, KeywordBoost(results[i].content,
                                                     keywords))]])

\* Line 324: whether the results are rescored.
BoostApplies(o) == o.useKeywordBoost /\ Len(o.keywords) > 0

\* (Faulty variant: the list is returned without slice(0, finalResults).)
FindRelevantContentReturnUnsliced(rows, o) ==
  LET results == IF BoostApplies(o)
                 THEN ApplyKeywordBoosting(rows, o.keywords)
                 ELSE rows
  IN  [i \in 1..Len(results) |->
         [id |-> results[i].id,
          content |-> results[i].content,
          similarity |-> results[i].similarity,
          resourceId |-> results[i].resourceId,
          score |-> results[i].similarity]]
\* Lines 323-340: from the rows the store answered to the returned list.
FindRelevantContentReturn(rows, o) ==
  LET results == IF BoostApplies(o)
                 THEN ApplyKeywordBoosting(rows, o.keywords)
                 ELSE rows
  IN  [i \in 1..Min(o.finalResults, Len(results)) |->
         [id |-> results[i].id,
          content |-> results[i].content,
          similarity |-> results[i].similarity,
          resourceId |-> results[i].resourceId,
          score |-> results[i].similarity]]

(***************************************************************************)
(* The chunker: generateChunks, lines 43-82, and                           *)
(* createSlidingWindowChunks, lines 88-144.                                *)
(*                                                                         *)
(* The code's sizes are CHUNK_SIZE 512, MIN_CHUNK_SIZE 50 and              *)
(* MAX_CHUNK_SIZE 3000 characters; the model runs the same code with the   *)
(* sizes scaled down.  A chunk is its content: the metadata is the         *)
(* caller's, copied unchanged onto every chunk.                            *)
(***************************************************************************)
MIN_CHUNK_SIZE == 3
CHUNK_SIZE == 4
MAX_CHUNK_SIZE == 6
\* Most pieces a document of the chunker runs is made of.
MaxPieces == 5

IsDigit(ch) == ch \in {"0", "1", "2", "3", "4", "5", "6", "7", "8", "9"}

UpperChar(ch) ==
  CASE ch = "a" -> "A" [] ch = "r" -> "R" [] ch = "t" -> "T"
    [] ch = "i" -> "I" [] ch = "g" -> "G" [] ch = "o" -> "O"
    [] OTHER -> ch

\* The letters of `word` stand at s[i], s[i+1], ..., in either case (flag i).
WordAt(s, i, word) ==
  /\ i + Len(word) - 1 <= Len(s)
  /\ \A j \in 1..Len(word) :
       s[i + j - 1] \in {word[j], UpperChar(word[j])}

\* The first index from i on that holds no white space (Len(s) + 1 when
\* there is none).
RECURSIVE SkipWhiteSpace(_, _)
SkipWhiteSpace(s, i) ==
  IF i <= Len(s) /\ IsWhiteSpace(s[i]) THEN SkipWhiteSpace(s, i + 1) ELSE i

\* \s*\d+ matches at i.
SpacesThenDigitAt(s, i) ==
  LET j == SkipWhiteSpace(s, i)
  IN  j <= Len(s) /\ IsDigit(s[j])

\* Line 51: the lookahead (?=(?:Art\.?|Artigo)\s*\d+) with flag i holds at
\* index i.
ArticleAt(s, i) ==
  \/ /\ WordAt(s, i, <<"a", "r", "t">>)
     /\ \/ SpacesThenDigitAt(s, i + 3)
        \/ /\ i + 3 <= Len(s)
           /\ s[i + 3] = "."
           /\ SpacesThenDigitAt(s, i + 4)
  \/ /\ WordAt(s, i, <<"a", "r", "t", "i", "g", "o">>)
     /\ SpacesThenDigitAt(s, i + 6)

\* Line 52, String.prototype.split on the lookahead: the string is cut
\* before every index but the first where the lookahead holds.  `from` is
\* where the current segment starts, i the index looked at.
RECURSIVE SplitArticlesFrom(_, _, _)
SplitArticlesFrom(s, from, i) ==
  IF i > Len(s) THEN << SubSeq(s, from, Len(s)) >>
  ELSE IF i > from /\ ArticleAt(s, i)
       THEN << SubSeq(s, from, i - 1) >> \o SplitArticlesFrom(s, i, i + 1)
       ELSE SplitArticlesFrom(s, from, i + 1)

SplitArticles(s) == SplitArticlesFrom(s, 1, 1)

\* The first index from i on that holds no "\n".
RECURSIVE SkipNewlines(_, _)
SkipNewlines(s, i) ==
  IF i <= Len(s) /\ s[i] = "\n" THEN SkipNewlines(s, i + 1) ELSE i

\* Line 65, split(/\n\n+/): every run of two or more newlines separates
\* two segments.
RECURSIVE SplitParagraphsFrom(_, _, _)
SplitParagraphsFrom(s, from, i) ==
  IF i > Len(s) THEN << SubSeq(s, from, Len(s)) >>
  ELSE IF SkipNewlines(s, i) >= i + 2
       THEN << SubSeq(s, from, i - 1) >>
            \o SplitParagraphsFrom(s, SkipNewlines(s, i), SkipNewlines(s, i))
       ELSE SplitParagraphsFrom(s, from, i + 1)

SplitParagraphs(s) == SplitParagraphsFrom(s, 1, 1)

\* Array.prototype.map(x => x.trim())
TrimAll(segs) == [k \in 1..Len(segs) |-> Trim(segs[k])]

\* Array.prototype.filter, for a test on the length of a segment.
RECURSIVE FilterByLength(_, _, _)
FilterByLength(segs, lo, hi) ==
  IF segs = <<>> THEN <<>>
  ELSE IF Len(Head(segs)) >= lo /\ Len(Head(segs)) <= hi
       THEN << Head(segs) >> \o FilterByLength(Tail(segs), lo, hi)
       ELSE FilterByLength(Tail(segs), lo, hi)

IsTerminator(ch) == ch \in {".", "!", "?"}

RECURSIVE SkipNonTerminators(_, _)
SkipNonTerminators(s, i) ==
  IF i <= Len(s) /\ ~IsTerminator(s[i])
  THEN SkipNonTerminators(s, i + 1)
  ELSE i

RECURSIVE SkipTerminators(_, _)
SkipTerminators(s, i) ==
  IF i <= Len(s) /\ IsTerminator(s[i]) THEN SkipTerminators(s, i + 1) ELSE i

\* Line 93, /[^.!?]+[.!?]+(?:\s+|$)|[^.!?]+$/ tried at index i: the index
\* after the match, 0 when there is no match at i.  A run of
\* non-terminators and the terminators after it match when white space or
\* the end of the text follows (the white space is part of the match); a
\* run of non-terminators alone matches when it reaches the end.
SentenceEndAt(s, i) ==
  IF IsTerminator(s[i]) THEN 0
  ELSE LET a == SkipNonTerminators(s, i)
           t == SkipTerminators(s, a)
       IN  IF a > Len(s) THEN a
           ELSE IF t > Len(s) THEN t
           ELSE IF IsWhiteSpace(s[t]) THEN SkipWhiteSpace(s, t)
           ELSE 0

\* String.prototype.match with flag g: the matches from left to right,
\* each search starting where the match before it ended.
RECURSIVE MatchSentences(_, _)
MatchSentences(s, i) ==
  IF i > Len(s) THEN <<>>
  ELSE IF SentenceEndAt(s, i) = 0 THEN MatchSentences(s, i + 1)
  ELSE << SubSeq(s, i, SentenceEndAt(s, i) - 1) >>
       \o MatchSentences(s, SentenceEndAt(s, i))

\* Line 93: text.match(...) || [text]
Sentences(text) ==
  IF MatchSentences(text, 1) = <<>> THEN << text >>
  ELSE MatchSentences(text, 1)

\* Array.prototype.join(' ')
RECURSIVE Join(_)
Join(parts) ==
  IF parts = <<>> THEN <<>>
  ELSE IF Len(parts) = 1 THEN Head(parts)
  ELSE Head(parts) \o << " " >> \o Join(Tail(parts))

\* Array.prototype.slice(-n): the last n elements; slice(-0) is slice(0),
\* the whole array.
SliceLast(arr, n) ==
  IF n = 0 \/ n >= Len(arr) THEN arr
  ELSE SubSeq(arr, Len(arr) - n + 1, Len(arr))

\* Math.floor(currentChunk.length * 0.2)
OverlapSentences(n) == n \div 5

\* Lines 105-112 and 126-132: the buffer is pushed as a chunk when its
\* text has at least MIN_CHUNK_SIZE characters.
PushChunk(chunkList, currentChunk) ==
  LET chunkText == Trim(Join(currentChunk))
  IN  IF Len(chunkText) >= MIN_CHUNK_SIZE
      THEN Append(chunkList, chunkText)
      ELSE chunkList

\* Lines 100-121: one turn of the loop, for the sentence sentences[i].
WindowTurn(w, rawSentence) ==
  LET sentence == Trim(rawSentence)
      flush == /\ w.currentLength + Len(sentence) > CHUNK_SIZE
               /\ Len(w.currentChunk) > 0
      kept == SliceLast(w.currentChunk,
                        OverlapSentences(Len(w.currentChunk)))
      chunkList == IF flush THEN PushChunk(w.chunks, w.currentChunk)
                   ELSE w.chunks
      currentChunk == IF flush THEN kept ELSE w.currentChunk
      currentLength == IF flush THEN Len(Join(kept)) ELSE w.currentLength
  IN  [chunks |-> chunkList,
       currentChunk |-> Append(currentChunk, sentence),
       currentLength |-> currentLength + Len(sentence)]

\* Lines 99-122: the loop over the sentences from index i on.
RECURSIVE WindowLoop(_, _, _)
WindowLoop(w, sentences, i) ==
  IF i > Len(sentences) THEN w
  ELSE WindowLoop(WindowTurn(w, sentences[i]), sentences, i + 1)

\* Lines 95-133: the chunks before the fallback.
WindowChunks(text) ==
  LET w == WindowLoop([chunks |-> <<>>, currentChunk |-> <<>>,
                       currentLength |-> 0], Sentences(text), 1)
  IN  IF Len(w.currentChunk) > 0
      THEN PushChunk(w.chunks, w.currentChunk)
      ELSE w.chunks

\* createSlidingWindowChunks, lines 88-144.
CreateSlidingWindowChunks(text) ==
  IF WindowChunks(text) = <<>> THEN << Trim(text) >> ELSE WindowChunks(text)

\* Lines 55-57: the article segments kept.
ValidArticles(trimmedInput) ==
  FilterByLength(TrimAll(SplitArticles(trimmedInput)),
                 MIN_CHUNK_SIZE, MAX_CHUNK_SIZE)

\* Lines 68-70: the paragraphs kept (no upper limit).
ValidParagraphs(trimmedInput) ==
  FilterByLength(TrimAll(SplitParagraphs(trimmedInput)),
                 MIN_CHUNK_SIZE, Len(trimmedInput))

\* generateChunks, lines 43-82.
GenerateChunks(input) ==
  LET trimmedInput == Trim(input)
  IN  IF Len(SplitArticles(trimmedInput)) > 1
      THEN ValidArticles(trimmedInput)
      ELSE IF /\ Len(SplitParagraphs(trimmedInput)) > 1
              /\ Len(ValidParagraphs(trimmedInput)) > 0
      THEN ValidParagraphs(trimmedInput)
      ELSE CreateSlidingWindowChunks(trimmedInput)

(***************************************************************************)
(* The keyword extractor: extractKeywords, lines 377-391.                  *)
(***************************************************************************)
\* Lines 379-384: the stop words, Portuguese and English.
StopWords ==
  { <<"o">>, <<"a">>, <<"o", "s">>, <<"a", "s">>, <<"d", "e">>,
    <<"d", "a">>, <<"d", "o">>, <<"e", "m">>, <<"p", "a", "r", "a">>,
    <<"c", "o", "m">>, <<"p", "o", "r">>, <<"t", "h", "e">>, <<"a", "n">>,
    <<"i", "n">>, <<"o", "n">>, <<"a", "t">>, <<"t", "o">>,
    <<"f", "o", "r">>, <<"o", "f">>, <<"w", "i", "t", "h">>, <<"b", "y">>,
    <<"e">>, <<"o", "u">>, <<"q", "u", "e">>, <<"q", "u", "a", "l">>,
    <<"c", "o", "m", "o">>, <<"q", "u", "a", "n", "d", "o">>,
    <<"o", "n", "d", "e">>, <<"a", "n", "d">>, <<"o", "r">>,
    <<"w", "h", "a", "t">>, <<"w", "h", "i", "c", "h">>, <<"h", "o", "w">>,
    <<"w", "h", "e", "n">>, <<"w", "h", "e", "r", "e">> }

\* word.length > 3
KEYWORD_LENGTH_ABOVE == 3
\* .slice(0, 5)
MAX_KEYWORDS == 5

\* String.prototype.split(/\s+/): the pieces between the runs of white
\* space; a run at the start or at the end leaves an empty piece there.
RECURSIVE SplitWhiteSpaceFrom(_, _, _)
SplitWhiteSpaceFrom(s, from, i) ==
  IF i > Len(s) THEN << SubSeq(s, from, Len(s)) >>
  ELSE IF IsWhiteSpace(s[i])
       THEN << SubSeq(s, from, i - 1) >>
            \o SplitWhiteSpaceFrom(s, SkipWhiteSpace(s, i),
                                   SkipWhiteSpace(s, i))
       ELSE SplitWhiteSpaceFrom(s, from, i + 1)

SplitWhiteSpace(s) == SplitWhiteSpaceFrom(s, 1, 1)

\* Line 389: the filter.
RECURSIVE FilterKeywords(_)
FilterKeywords(words) ==
  IF words = <<>> THEN <<>>
  ELSE IF /\ Len(Head(words)) > KEYWORD_LENGTH_ABOVE
          /\ Head(words) \notin StopWords
       THEN << Head(words) >> \o FilterKeywords(Tail(words))
       ELSE FilterKeywords(Tail(words))

\* (Faulty variant: the list is returned without slice(0, 5).)
ExtractKeywordsUnsliced(query) ==
  FilterKeywords(SplitWhiteSpace(ToLowerCase(query)))
\* extractKeywords, lines 377-391.
ExtractKeywords(query) ==
  Take(FilterKeywords(SplitWhiteSpace(ToLowerCase(query))), MAX_KEYWORDS)

(***************************************************************************)
(* The diversity metric: calculateDiversity, web-search.ts lines 550-559.  *)
(* A ratio is kept exactly, as numerator and denominator; 0/0 is what the  *)
(* code computes as NaN.                                                   *)
(***************************************************************************)
\* r.metadata?.resourceId is undefined: the chunk has no owning document.
NoResourceId == "undefined"

\* Line 555: r.metadata?.resourceId || "unknown"
SourceOf(r) == IF r.resourceId = NoResourceId THEN "unknown" ELSE r.resourceId

\* Lines 554-558, without the guard of line 551.
SourcesOverResults(results) ==
  [num |-> Cardinality({ SourceOf(results[k]) : k \in 1..Len(results) }),
   den |-> Len(results)]

\* (Faulty variant: the guard of line 551 is missing.)
CalculateDiversityUnguarded(results) == SourcesOverResults(results)
\* calculateDiversity, lines 550-559.
CalculateDiversity(results) ==
  IF Len(results) < 2 THEN [num |-> 1, den |-> 1]
  ELSE SourcesOverResults(results)

(***************************************************************************)
(* Concurrent cache runs: any interleaving of calls on Texts.              *)
(***************************************************************************)
InitCache ==
  /\ cache = <<>>
  /\ cacheEnabled \in BOOLEAN
  /\ pc = [c \in Calls |-> "idle"]
  /\ callValue = [c \in Calls |-> NoText]
  /\ last = [op |-> "none", text |-> NoText, result |-> "none",
             prev |-> NoMiss]
  /\ round = "free"
  /\ RetrievalUnused
  /\ ChunkerUnused /\ IngestUnused /\ KeywordsUnused
  /\ DiversityUnused /\ EvaluateUnused /\ ServicesUnused

NextCache ==
  \/ \E c \in Calls, value \in Texts :
       GenerateEmbeddingCall(c, value) /\ UNCHANGED <<round, rvars, xvars>>
  \/ \E c \in Calls, embedding \in Vectors :
       EmbedResolved(c, embedding) /\ UNCHANGED <<round, rvars, xvars>>
  \/ \E c \in Calls : EmbedRejected(c) /\ UNCHANGED <<round, rvars, xvars>>
  \/ ClearEmbeddingCache /\ UNCHANGED <<round, rvars, xvars>>

SpecCache == InitCache /\ [][NextCache]_vars

(***************************************************************************)
(* Key-normalisation runs: one caller embeds a first text, waits for the   *)
(* vector, then embeds a second text; both range over AllTexts.            *)
(***************************************************************************)
InitKey ==
  /\ cache = <<>>
  /\ cacheEnabled = TRUE
  /\ pc = [c \in Calls |-> "idle"]
  /\ callValue = [c \in Calls |-> NoText]
  /\ last = [op |-> "none", text |-> NoText, result |-> "none",
             prev |-> NoMiss]
  /\ round = "first"
  /\ RetrievalUnused
  /\ ChunkerUnused /\ IngestUnused /\ KeywordsUnused
  /\ DiversityUnused /\ EvaluateUnused /\ ServicesUnused

KeyCall(value) ==
  /\ round \in {"first", "second"}
  /\ GenerateEmbeddingCall(1, value)
  /\ round' = IF round = "first" THEN "second" ELSE "done"
  /\ UNCHANGED <<rvars, xvars>>

KeyResolved(embedding) ==
  /\ round = "second"
  /\ EmbedResolved(1, embedding)
  /\ UNCHANGED <<round, rvars, xvars>>

NextKey ==
  \/ \E value \in AllTexts : KeyCall(value)
  \/ KeyResolved("v1")

SpecKey == InitKey /\ [][NextKey]_vars

(***************************************************************************)
(* Retrieval runs: one caller makes findRelevantContent calls, one after   *)
(* the other, against a fixed corpus and with the options the run starts   *)
(* with.                                                                   *)
(***************************************************************************)
QueryTexts == { <<"a">>, <<"A", " ">> }

\* The keyword lists of a call: none, a letter, two letters, a letter and
\* a full stop.
KeywordLists ==
  { <<>>, << <<"a">> >>, << <<"A">>, <<"b">> >>, << <<"b">>, <<".">> >> }

\* The metadata filters of a call: none, by type, by title, by creation
\* time, all of them.
Filters ==
  { [documentType |-> "", title |-> <<>>, dateFrom |-> 0, dateTo |-> 0],
    [documentType |-> "lei", title |-> <<>>, dateFrom |-> 0, dateTo |-> 0],
    [documentType |-> "", title |-> <<"b">>, dateFrom |-> 0, dateTo |-> 0],
    [documentType |-> "", title |-> <<>>, dateFrom |-> 2, dateTo |-> 3],
    [documentType |-> "lei", title |-> <<"a">>, dateFrom |-> 1,
     dateTo |-> 2] }

\* Lines 264-274: the options of a call, defaults included.
Options ==
  { [similarityThreshold |-> t, topK |-> k, finalResults |-> n,
     useKeywordBoost |-> b, keywords |-> kw,
     documentType |-> f.documentType, title |-> f.title,
     dateFrom |-> f.dateFrom, dateTo |-> f.dateTo] :
    t \in {SIMILARITY_THRESHOLD, 4000},
    k \in {1, 2, TOP_K_RESULTS},
    n \in {1, FINAL_RESULTS},
    b \in BOOLEAN,
    kw \in KeywordLists,
    f \in Filters }

Return(status, end, results) ==
  [status |-> status, end |-> end, results |-> results]

\* Lines 260-277 and generateEmbedding up to its await: on a cache hit the
\* call goes on to the vector store (lines 278-321), on a miss it waits
\* for embed().
FindRelevantContentCall(c, userQuery) ==
  /\ pc[c] = "idle"
  /\ ret' = NoReturn
  /\ LET cacheKey == CacheKey(userQuery)
     IN  IF cacheEnabled /\ MapHas(cache, cacheKey)
         THEN /\ pc' = [pc EXCEPT ![c] = "awaitQuery"]
              /\ queryVec' = MapGet(cache, cacheKey)
              /\ last' = Step("hit", userQuery, MapGet(cache, cacheKey))
              /\ UNCHANGED callValue
         ELSE /\ pc' = [pc EXCEPT ![c] = "awaitEmbed"]
              /\ callValue' = [callValue EXCEPT ![c] = userQuery]
              /\ queryVec' = NoVector
              /\ last' = Step("call", userQuery, "pending")
  /\ UNCHANGED <<cache, cacheEnabled, corpus, opts, round>>

\* embed() resolved inside findRelevantContent: generateEmbedding lines
\* 191-204, then lines 278-321 up to the await of the query.
QueryEmbedResolved(c, embedding) ==
  /\ pc[c] = "awaitEmbed"
  /\ cache' = CachePut(cache, cacheEnabled, callValue[c], embedding)
  /\ pc' = [pc EXCEPT ![c] = "awaitQuery"]
  /\ callValue' = [callValue EXCEPT ![c] = NoText]
  /\ queryVec' = embedding
  /\ last' = Step("miss", callValue[c], embedding)
  /\ UNCHANGED <<cacheEnabled, corpus, opts, ret, round>>

\* (Faulty variant: a failed embedding is answered with an empty list.)
QueryEmbedRejectedAsEmpty(c) ==
  /\ pc[c] = "awaitEmbed"
  /\ pc' = [pc EXCEPT ![c] = "idle"]
  /\ callValue' = [callValue EXCEPT ![c] = NoText]
  /\ last' = Step("fail", callValue[c], "rejected")
  /\ ret' = Return("ok", "embedRejected", <<>>)
  /\ UNCHANGED <<cache, cacheEnabled, corpus, opts, queryVec, round>>
\* embed() rejected inside findRelevantContent: the exception passes
\* through line 277 to the caller.
QueryEmbedRejected(c) ==
  /\ pc[c] = "awaitEmbed"
  /\ pc' = [pc EXCEPT ![c] = "idle"]
  /\ callValue' = [callValue EXCEPT ![c] = NoText]
  /\ last' = Step("fail", callValue[c], "rejected")
  /\ ret' = Return("failed", "embedRejected", <<>>)
  /\ UNCHANGED <<cache, cacheEnabled, corpus, opts, queryVec, round>>

\* Lines 321-340: the vector store answered with some rows.
QueryResolved(c) ==
  /\ pc[c] = "awaitQuery"
  /\ \E rows \in QueryAnswers(corpus, queryVec, opts) :
       ret' = Return("ok", "queryResolved",
                     FindRelevantContentReturn(rows, opts))
  /\ pc' = [pc EXCEPT ![c] = "idle"]
  /\ last' = Step("query", NoText, "rows")
  /\ UNCHANGED <<cache, cacheEnabled, callValue, corpus, opts, queryVec,
                 round>>

\* The query failed: the exception passes through line 321 to the caller.
QueryRejected(c) ==
  /\ pc[c] = "awaitQuery"
  /\ pc' = [pc EXCEPT ![c] = "idle"]
  /\ ret' = Return("failed", "queryRejected", <<>>)
  /\ last' = Step("query", NoText, "rejected")
  /\ UNCHANGED <<cache, cacheEnabled, callValue, corpus, opts, queryVec,
                 round>>

InitRetrieve ==
  /\ cache = <<>>
  /\ cacheEnabled \in BOOLEAN
  /\ pc = [c \in Calls |-> "idle"]
  /\ callValue = [c \in Calls |-> NoText]
  /\ last = [op |-> "none", text |-> NoText, result |-> "none",
             prev |-> NoMiss]
  /\ round = "free"
  /\ corpus \in Corpora
  /\ opts \in Options
  /\ queryVec = NoVector
  /\ ret = NoReturn
  /\ ChunkerUnused /\ IngestUnused /\ KeywordsUnused
  /\ DiversityUnused /\ EvaluateUnused /\ ServicesUnused

NextRetrieve ==
  \/ \E userQuery \in QueryTexts :
       FindRelevantContentCall(1, userQuery) /\ UNCHANGED xvars
  \/ \E embedding \in Vectors :
       QueryEmbedResolved(1, embedding) /\ UNCHANGED xvars
  \/ QueryEmbedRejected(1) /\ UNCHANGED xvars
  \/ QueryResolved(1) /\ UNCHANGED xvars
  \/ QueryRejected(1) /\ UNCHANGED xvars

SpecRetrieve == InitRetrieve /\ [][NextRetrieve]_vars

(***************************************************************************)
(* Chunker runs: generateChunks is applied to one document.                *)
(***************************************************************************)
DocPieces ==
  { <<"A", "r", "t", "1">>, <<"a">>, <<".">>, <<" ">>, <<"\n", "\n">> }

\* The concatenation of a sequence of texts.
RECURSIVE Flatten(_)
Flatten(parts) ==
  IF parts = <<>> THEN <<>> ELSE Head(parts) \o Flatten(Tail(parts))

\* n copies of a text, one after the other.
RECURSIVE Repeat(_, _)
Repeat(text, n) == IF n = 0 THEN <<>> ELSE text \o Repeat(text, n - 1)

\* Longer documents: six and seven short sentences, a long paragraph
\* before a short one, a long first article, a decimal point in a
\* sentence.
LongDocs ==
  { Repeat(<<"a", ".", " ">>, 6),
    Repeat(<<"a", "a", ".", " ">>, 7),
    Repeat(<<"a">>, MAX_CHUNK_SIZE + 1) \o <<"\n", "\n">> \o Repeat(<<"a">>, 3),
    Repeat(<<"a">>, MAX_CHUNK_SIZE + 1) \o <<"A", "r", "t", ".", " ", "1", "a">>,
    <<"a", " ", "1", ".", "1", " ", "a", "a", ".">> }

\* Every document of at most maxPieces pieces, and the longer ones.
Docs(maxPieces) ==
  { Flatten(p) : p \in UNION { [1..n -> DocPieces] : n \in 0..maxPieces } }
    \cup LongDocs

InitChunk ==
  /\ CacheAtRest
  /\ cacheEnabled = TRUE
  /\ RetrievalUnused
  /\ doc \in Docs(MaxPieces)
  /\ chunks = NoChunks
  /\ IngestUnused /\ KeywordsUnused /\ DiversityUnused /\ EvaluateUnused
  /\ ServicesUnused

\* A call generateChunks(doc).
GenerateChunksCall ==
  /\ ~chunks.done
  /\ chunks' = [done |-> TRUE, list |-> GenerateChunks(doc)]
  /\ UNCHANGED <<cache, cacheEnabled, pc, callValue, last, round, rvars,
                 doc, ivars, kvars, dvars, ev, wvars>>

NextChunk == GenerateChunksCall

SpecChunk == InitChunk /\ [][NextChunk]_vars

(***************************************************************************)
(* Sliding window runs: generateChunks reaches strategy 3 and the loop of  *)
(* createSlidingWindowChunks takes one sentence per step.                  *)
(***************************************************************************)
\* Lines 54 and 67-72: neither the article split nor the paragraph split
\* returns, so generateChunks calls createSlidingWindowChunks.
ReachesSlidingWindow(input) ==
  LET trimmedInput == Trim(input)
  IN  /\ Len(SplitArticles(trimmedInput)) <= 1
      /\ ~ ( /\ Len(SplitParagraphs(trimmedInput)) > 1
             /\ Len(ValidParagraphs(trimmedInput)) > 0 )

\* Line 104: the test that makes a turn of the loop flush the buffer.
FlushesBefore(w, rawSentence) ==
  /\ w.currentLength + Len(Trim(rawSentence)) > CHUNK_SIZE
  /\ Len(w.currentChunk) > 0

InitWindow ==
  /\ CacheAtRest
  /\ cacheEnabled = TRUE
  /\ RetrievalUnused
  /\ doc \in Docs(MaxPieces)
  /\ chunks = NoChunks
  /\ IngestUnused /\ KeywordsUnused /\ DiversityUnused /\ EvaluateUnused
  /\ ServicesUnused

\* What the sliding window leaves alone.
windowRest == <<cache, cacheEnabled, pc, callValue, last, round, rvars,
                doc, ivars, kvars, dvars, ev, limiter, search, admin,
                settingsTable, setCalls, lvars>>

\* Lines 93-97: createSlidingWindowChunks(trimmedInput) splits the text
\* into sentences and starts with an empty buffer.
CreateSlidingWindowChunksCall ==
  /\ win.pc = "idle"
  /\ ReachesSlidingWindow(doc)
  /\ win' = [win EXCEPT !.pc = "loop",
                        !.sentences = Sentences(Trim(doc)),
                        !.i = 1]
  /\ UNCHANGED <<chunks, windowRest>>

\* Lines 99-122: one turn of the loop.  Whether the turn flushed the
\* buffer is recorded.
WindowTurnStep ==
  /\ win.pc = "loop"
  /\ win.i <= Len(win.sentences)
  /\ win' = [win EXCEPT !.w = WindowTurn(win.w, win.sentences[win.i]),
                        !.i = @ + 1,
                        !.flushed = FlushesBefore(win.w,
                                                  win.sentences[win.i])]
  /\ UNCHANGED <<chunks, windowRest>>

\* Lines 124-143: after the loop the buffer is pushed, the fallback
\* applies and the chunks are returned.
WindowReturn ==
  /\ win.pc = "loop"
  /\ win.i > Len(win.sentences)
  /\ win' = [win EXCEPT !.pc = "done", !.flushed = FALSE]
  /\ LET pushed == IF Len(win.w.currentChunk) > 0
                   THEN PushChunk(win.w.chunks, win.w.currentChunk)
                   ELSE win.w.chunks
     IN  chunks' = [done |-> TRUE,
                    list |-> IF pushed = <<>> THEN << Trim(doc) >>
                             ELSE pushed]
  /\ UNCHANGED windowRest

NextWindow ==
  \/ CreateSlidingWindowChunksCall
  \/ WindowTurnStep
  \/ WindowReturn

SpecWindow == InitWindow /\ [][NextWindow]_vars

(***************************************************************************)
(* Ingestion runs: createResource, resources-optimized.ts lines 15-63,     *)
(* with generateEmbeddings, lines 149-170.  One caller ingests documents   *)
(* one after the other; a call is suspended at its three awaits.           *)
(***************************************************************************)
\* Number of createResource calls of a run.
MaxIngests == 2

\* Documents of two paragraphs, of one sentence, and one whose article
\* segments all fail the size filter.
IngestDocs ==
  { Repeat(<<"a">>, MIN_CHUNK_SIZE) \o <<"\n", "\n">>
      \o Repeat(<<"a">>, MIN_CHUNK_SIZE),
    Repeat(<<"a">>, MIN_CHUNK_SIZE),
    <<".", "A", "r", "t", "1">> \o Repeat(<<".">>, MAX_CHUNK_SIZE) }

\* The argument of createResource; `valid` tells whether
\* insertResourceSchema.parse accepts it.
IngestInputs == [content : IngestDocs, valid : BOOLEAN]

\* Lines 52-62: the catch block returns the failure to the caller.
IngestFailed(at) ==
  [ingest EXCEPT !.pc = "idle", !.outcome = "failed", !.end = at]

\* Lines 15-28: validation, then the await of the insert into resources.
CreateResourceCall(input) ==
  /\ ingest.pc = "idle"
  /\ ingest.calls < MaxIngests
  /\ ingest' =
       IF input.valid
       THEN [pc |-> "awaitResource", content |-> input.content,
             resourceId |-> 0, data |-> <<>>, outcome |-> "none",
             end |-> "none", calls |-> ingest.calls + 1]
       ELSE [pc |-> "idle", content |-> input.content,
             resourceId |-> 0, data |-> <<>>, outcome |-> "failed",
             end |-> "validation", calls |-> ingest.calls + 1]
  /\ UNCHANGED <<resourcesTable, embeddingsTable>>

\* Lines 20-31 and generateEmbeddings lines 157-160: the resource row is
\* stored, the content is chunked and embedMany is awaited.
ResourceInsertResolved ==
  /\ ingest.pc = "awaitResource"
  /\ LET id == Cardinality(resourcesTable) + 1
     IN  /\ resourcesTable' =
               resourcesTable \cup {[id |-> id, content |-> ingest.content]}
         /\ ingest' = [ingest EXCEPT !.pc = "awaitEmbedMany",
                                     !.resourceId = id,
                                     !.data = GenerateChunks(ingest.content)]
  /\ UNCHANGED embeddingsTable

\* The insert into resources failed.
ResourceInsertRejected ==
  /\ ingest.pc = "awaitResource"
  /\ ingest' = IngestFailed("resourceInsert")
  /\ UNCHANGED <<resourcesTable, embeddingsTable>>

\* Lines 39-43: the rows of the insert into embeddings.
EmbeddingRows(resourceId, contents, vectors) ==
  [k \in 1..Len(contents) |->
     [id |-> <<resourceId, k>>, resourceId |-> resourceId,
      content |-> contents[k], embedding |-> vectors[k]]]

\* generateEmbeddings lines 160-169 and createResource lines 31-44:
\* embedMany resolved with one vector per chunk, and the insert into
\* embeddings is awaited.  values() of an empty list throws.
EmbedManyResolved ==
  /\ ingest.pc = "awaitEmbedMany"
  /\ \E vectors \in [1..Len(ingest.data) -> Vectors] :
       ingest' =
         IF Len(ingest.data) = 0
         THEN IngestFailed("emptyInsert")
         ELSE [ingest EXCEPT
                 !.pc = "awaitEmbeddings",
                 !.data = EmbeddingRows(ingest.resourceId, ingest.data,
                                        vectors)]
  /\ UNCHANGED <<resourcesTable, embeddingsTable>>

\* (Faulty variant: the chunks embedded before the failure are stored.)
EmbedManyRejectedAfterPartialStore ==
  /\ ingest.pc = "awaitEmbedMany"
  /\ ingest' = IngestFailed("embedMany")
  /\ embeddingsTable' =
       embeddingsTable \cup
         { [id |-> <<ingest.resourceId, k>>, resourceId |-> ingest.resourceId,
            content |-> ingest.data[k], embedding |-> "v1"] :
           k \in 1..(Len(ingest.data) - 1) }
  /\ UNCHANGED resourcesTable
\* embedMany rejected: the embedding of some chunk of the batch failed.
EmbedManyRejected ==
  /\ ingest.pc = "awaitEmbedMany"
  /\ ingest' = IngestFailed("embedMany")
  /\ UNCHANGED <<resourcesTable, embeddingsTable>>

\* Lines 38-51: the one insert statement stored every row.
EmbeddingsInsertResolved ==
  /\ ingest.pc = "awaitEmbeddings"
  /\ embeddingsTable' =
       embeddingsTable \cup { ingest.data[k] : k \in 1..Len(ingest.data) }
  /\ ingest' = [ingest EXCEPT !.pc = "idle", !.outcome = "success",
                              !.end = "stored"]
  /\ UNCHANGED resourcesTable

\* The insert statement failed and stored no row.
EmbeddingsInsertRejected ==
  /\ ingest.pc = "awaitEmbeddings"
  /\ ingest' = IngestFailed("embeddingsInsert")
  /\ UNCHANGED <<resourcesTable, embeddingsTable>>

InitIngest ==
  /\ CacheAtRest
  /\ cacheEnabled = TRUE
  /\ RetrievalUnused
  /\ ChunkerUnused
  /\ IngestUnused
  /\ KeywordsUnused /\ DiversityUnused /\ EvaluateUnused /\ ServicesUnused

\* What an ingestion step leaves alone.
ingestRest == <<cache, cacheEnabled, pc, callValue, last, round, rvars,
                cvars, kvars, dvars, ev, wvars>>

NextIngest ==
  \/ \E input \in IngestInputs :
       CreateResourceCall(input) /\ UNCHANGED ingestRest
  \/ ResourceInsertResolved /\ UNCHANGED ingestRest
  \/ ResourceInsertRejected /\ UNCHANGED ingestRest
  \/ EmbedManyResolved /\ UNCHANGED ingestRest
  \/ EmbedManyRejected /\ UNCHANGED ingestRest
  \/ EmbeddingsInsertResolved /\ UNCHANGED ingestRest
  \/ EmbeddingsInsertRejected /\ UNCHANGED ingestRest

SpecIngest == InitIngest /\ [][NextIngest]_vars

(***************************************************************************)
(* Keyword runs: extractKeywords is applied to one query.                  *)
(***************************************************************************)
\* Most words a query of the keyword runs is made of.
MaxWords == 6

\* A stop word of four letters with a capital, a word of three letters,
\* and two words that are kept, one with a capital.
QueryWords ==
  { <<"C", "o", "m", "o">>, <<"l", "e", "i">>,
    <<"L", "e", "i", "s">>, <<"a", "r", "t", "s", "?">> }

\* The words joined by the separator `sep`.
RECURSIVE JoinWith(_, _)
JoinWith(words, sep) ==
  IF words = <<>> THEN <<>>
  ELSE IF Len(words) = 1 THEN Head(words)
  ELSE Head(words) \o sep \o JoinWith(Tail(words), sep)

\* Queries of at most maxWords words: separated by one space, or by a tab
\* and a newline with white space before the first and after the last
\* word, or by nothing.
Queries(maxWords) ==
  UNION { { JoinWith(w, <<" ">>),
            <<" ">> \o JoinWith(w, <<"\t", "\n">>) \o <<"\n">>,
            JoinWith(w, <<>>) } :
          w \in UNION { [1..n -> QueryWords] : n \in 0..maxWords } }

InitKeywords ==
  /\ CacheAtRest
  /\ cacheEnabled = TRUE
  /\ RetrievalUnused
  /\ ChunkerUnused /\ IngestUnused
  /\ kwQuery \in Queries(MaxWords)
  /\ kwResult = NoKeywords
  /\ DiversityUnused /\ EvaluateUnused /\ ServicesUnused

\* A call extractKeywords(kwQuery).
ExtractKeywordsCall ==
  /\ ~kwResult.done
  /\ kwResult' = [done |-> TRUE, list |-> ExtractKeywords(kwQuery)]
  /\ UNCHANGED <<cache, cacheEnabled, pc, callValue, last, round, rvars,
                 cvars, ivars, kwQuery, dvars, ev, wvars>>

NextKeywords == ExtractKeywordsCall

SpecKeywords == InitKeywords /\ [][NextKeywords]_vars

(***************************************************************************)
(* Diversity runs: calculateDiversity is applied to one result list.       *)
(***************************************************************************)
\* Longest result list of the diversity runs.
MaxResults == 4

\* The owning documents of the results: three documents, or none.
ResultSources == {"r1", "r2", "r3", NoResourceId}

ResultLists ==
  UNION { [1..n -> [resourceId : ResultSources]] : n \in 0..MaxResults }

InitDiversity ==
  /\ CacheAtRest
  /\ cacheEnabled = TRUE
  /\ RetrievalUnused
  /\ ChunkerUnused /\ IngestUnused /\ KeywordsUnused
  /\ divResults \in ResultLists
  /\ divResult = NoDiversity
  /\ EvaluateUnused /\ ServicesUnused

\* A call calculateDiversity(divResults).
CalculateDiversityCall ==
  /\ ~divResult.done
  /\ divResult' = [done |-> TRUE,
                   num |-> CalculateDiversity(divResults).num,
                   den |-> CalculateDiversity(divResults).den]
  /\ UNCHANGED <<cache, cacheEnabled, pc, callValue, last, round, rvars,
                 cvars, ivars, kvars, divResults, ev,
                 wvars>>

NextDiversity == CalculateDiversityCall

SpecDiversity == InitDiversity /\ [][NextDiversity]_vars

(***************************************************************************)
(* Evaluation runs: evaluateRAGPerformance, web-search.ts lines 340-403,   *)
(* calls findRelevantContent for its queries one after the other.  The     *)
(* retrieval times are left out.  A mean similarity is kept exactly, as    *)
(* the sum of the similarities over their number.                          *)
(***************************************************************************)
\* Most queries of an evaluation.
MaxQueries == 2

\* avgSimilarity < 0.5
LOW_CONFIDENCE == 5000

Zero == [num |-> 0, den |-> 1]

RatLess(a, b) == a.num * b.den < b.num * a.den

\* Math.min(...values, least): `least` is the last argument.
RECURSIVE MathMin(_, _)
MathMin(values, least) ==
  IF values = <<>> THEN least
  ELSE MathMin(Tail(values),
               IF RatLess(Head(values), least) THEN Head(values) ELSE least)

\* Math.max(...values, most)
RECURSIVE MathMax(_, _)
MathMax(values, most) ==
  IF values = <<>> THEN most
  ELSE MathMax(Tail(values),
               IF RatLess(most, Head(values)) THEN Head(values) ELSE most)

\* results.reduce((sum, r) => sum + r.similarity, 0)
RECURSIVE SumSimilarity(_)
SumSimilarity(results) ==
  IF results = <<>> THEN 0
  ELSE Head(results).similarity + SumSimilarity(Tail(results))

\* Line 370: the mean similarity of a non-empty result list.
AvgSimilarity(results) ==
  [num |-> SumSimilarity(results), den |-> Len(results)]

\* Lines 361-376: the loop body after findRelevantContent returned
\* `results`.  `returned` keeps the result lists themselves.
Accumulate(e, results) ==
  [e EXCEPT
     !.resultCounts = Append(@, Len(results)),
     !.returned = Append(@, results),
     !.queriesWithNoResults = IF Len(results) = 0 THEN @ + 1 ELSE @,
     !.similarityScores =
        IF Len(results) = 0 THEN @ ELSE Append(@, AvgSimilarity(results)),
     !.queriesWithLowConfidence =
        IF /\ Len(results) > 0
           /\ RatLess(AvgSimilarity(results),
                      [num |-> LOW_CONFIDENCE, den |-> 1])
        THEN @ + 1 ELSE @]

\* Lines 391-402: the metrics returned.
Metrics(e) ==
  [minSimilarity |-> MathMin(e.similarityScores, Zero),
   maxSimilarity |-> MathMax(e.similarityScores, Zero),
   totalQueries |-> Len(e.testQueries),
   queriesWithNoResults |-> e.queriesWithNoResults,
   queriesWithLowConfidence |-> e.queriesWithLowConfidence]

QueryLists == UNION { [1..n -> QueryTexts] : n \in 0..MaxQueries }

\* Lines 356-359: the options evaluateRAGPerformance passes on, the other
\* options taking their defaults.
EvaluateOptions ==
  { [similarityThreshold |-> t, topK |-> TOP_K_RESULTS,
     finalResults |-> FINAL_RESULTS, useKeywordBoost |-> FALSE,
     keywords |-> <<>>, documentType |-> d, title |-> <<>>,
     dateFrom |-> 0, dateTo |-> 0] :
    t \in {SIMILARITY_THRESHOLD, 4000, 9000}, d \in {"", "lei"} }

\* What an evaluation step leaves alone besides what retrieval does.
evaluateRest == <<cvars, ivars, kvars, dvars, wvars>>

\* Line 353, the head of the loop: with a query left, lines 354-359 up to
\* the first await inside findRelevantContent; with none left, lines
\* 379-402.
EvaluateLoopTurn ==
  /\ ev.pc \in {"idle", "next"}
  /\ IF ev.i < Len(ev.testQueries)
     THEN /\ FindRelevantContentCall(1, ev.testQueries[ev.i + 1])
          /\ ev' = [ev EXCEPT !.pc = "running", !.i = @ + 1]
     ELSE /\ ev' = [ev EXCEPT !.pc = "done", !.metrics = Metrics(ev)]
          /\ UNCHANGED <<cache, cacheEnabled, pc, callValue, last, round,
                         rvars>>
  /\ UNCHANGED evaluateRest

\* embed() resolved for the current query.
EvaluateEmbedResolved(embedding) ==
  /\ ev.pc = "running"
  /\ QueryEmbedResolved(1, embedding)
  /\ UNCHANGED <<ev, evaluateRest>>

\* embed() rejected: the exception leaves evaluateRAGPerformance.
EvaluateEmbedRejected ==
  /\ ev.pc = "running"
  /\ QueryEmbedRejected(1)
  /\ ev' = [ev EXCEPT !.pc = "failed"]
  /\ UNCHANGED evaluateRest

\* Lines 356-376: findRelevantContent returned its results.
EvaluateQueryResolved ==
  /\ ev.pc = "running"
  /\ QueryResolved(1)
  /\ ev' = [Accumulate(ev, ret'.results) EXCEPT !.pc = "next"]
  /\ UNCHANGED evaluateRest

\* The vector store failed: the exception leaves evaluateRAGPerformance.
EvaluateQueryRejected ==
  /\ ev.pc = "running"
  /\ QueryRejected(1)
  /\ ev' = [ev EXCEPT !.pc = "failed"]
  /\ UNCHANGED evaluateRest

InitEvaluate ==
  /\ CacheAtRest
  /\ cacheEnabled \in BOOLEAN
  /\ corpus \in Corpora
  /\ opts \in EvaluateOptions
  /\ queryVec = NoVector
  /\ ret = NoReturn
  /\ ChunkerUnused /\ IngestUnused /\ KeywordsUnused /\ DiversityUnused
  /\ ServicesUnused
  /\ \E testQueries \in QueryLists :
       ev = [NoEvaluate EXCEPT !.testQueries = testQueries]

NextEvaluate ==
  \/ EvaluateLoopTurn
  \/ \E embedding \in Vectors : EvaluateEmbedResolved(embedding)
  \/ EvaluateEmbedRejected
  \/ EvaluateQueryResolved
  \/ EvaluateQueryRejected

SpecEvaluate == InitEvaluate /\ [][NextEvaluate]_vars

(***************************************************************************)
(* The search rate limiter: SearchRateLimiter of the web search.           *)
(*                                                                         *)
(* The limiter keeps one entry {count, resetAt} per identifier in a Map.   *)
(* Date.now() is the clock `now`, which other steps advance.  The          *)
(* exported limiter allows 10 requests per window of 60000 ms; the model   *)
(* runs the same code with a smaller limit and a shorter window.           *)
(***************************************************************************)
\* config.maxRequests (10 for the exported limiter).
MAX_REQUESTS == 2
\* config.windowMs (60000 for the exported limiter).
WINDOW_MS == 3
\* The latest time the clock reaches.
MaxNow == 6
\* Number of checkLimit calls of a run.
MaxChecks == 5

Identifiers == {"u1", "u2"}

\* (Faulty variant: the comparison with the limit lets one more through.)
CheckLimitOneMore(limits, identifier, now) ==
  IF ~MapHas(limits, identifier) \/ now >= MapGet(limits, identifier).resetAt
  THEN [limits |-> MapSet(limits, identifier,
                          [count |-> 1, resetAt |-> now + WINDOW_MS]),
        result |-> TRUE]
  ELSE LET entry == MapGet(limits, identifier)
       IN  IF entry.count <= MAX_REQUESTS
           THEN [limits |-> MapSet(limits, identifier,
                                   [entry EXCEPT !.count = @ + 1]),
                 result |-> TRUE]
           ELSE [limits |-> limits, result |-> FALSE]
\* (Faulty variant: a rejected call starts the window again.)
CheckLimitRejectRestarts(limits, identifier, now) ==
  IF ~MapHas(limits, identifier) \/ now >= MapGet(limits, identifier).resetAt
  THEN [limits |-> MapSet(limits, identifier,
                          [count |-> 1, resetAt |-> now + WINDOW_MS]),
        result |-> TRUE]
  ELSE LET entry == MapGet(limits, identifier)
       IN  IF entry.count < MAX_REQUESTS
           THEN [limits |-> MapSet(limits, identifier,
                                   [entry EXCEPT !.count = @ + 1]),
                 result |-> TRUE]
           ELSE [limits |-> MapSet(limits, identifier,
                                   [entry EXCEPT !.resetAt = now + WINDOW_MS]),
                 result |-> FALSE]
\* Lines 39-60: checkLimit(identifier) at the time `now`: the map it
\* leaves and the value it returns.
CheckLimit(limits, identifier, now) ==
  IF ~MapHas(limits, identifier) \/ now >= MapGet(limits, identifier).resetAt
  THEN [limits |-> MapSet(limits, identifier,
                          [count |-> 1, resetAt |-> now + WINDOW_MS]),
        result |-> TRUE]
  ELSE LET entry == MapGet(limits, identifier)
       IN  IF entry.count < MAX_REQUESTS
           THEN [limits |-> MapSet(limits, identifier,
                                   [entry EXCEPT !.count = @ + 1]),
                 result |-> TRUE]
           ELSE [limits |-> limits, result |-> FALSE]

\* Lines 87-94: cleanup() at the time `now` deletes the expired entries.
RECURSIVE Cleanup(_, _)
Cleanup(limits, now) ==
  IF limits = <<>> THEN <<>>
  ELSE IF now >= Head(limits).value.resetAt
       THEN Cleanup(Tail(limits), now)
       ELSE <<Head(limits)>> \o Cleanup(Tail(limits), now)

(***************************************************************************)
(* Rate limiter runs: checkLimit calls of two identifiers, the cleanup     *)
(* timer and the passing of time, in any order.                            *)
(***************************************************************************)
InitLimiter ==
  /\ CacheAtRest
  /\ cacheEnabled = TRUE
  /\ RetrievalUnused
  /\ ChunkerUnused /\ IngestUnused /\ KeywordsUnused /\ DiversityUnused
  /\ EvaluateUnused
  /\ limiter = NoLimiter
  /\ search = NoSearch
  /\ admin = NoAdmin
  /\ win = NoWindow
  /\ SettingsUnused
  /\ LogsUnused

\* What the limiter leaves alone.
limiterRest == <<coreVars, search, admin, win,
                  settingsTable, setCalls, lvars>>

\* A call checkLimit(identifier).  The call is recorded with its time,
\* whether limits.get found an entry, what it returned, and whether it
\* opened a window (lines 45-48, the only place that sets a count of 1).
CheckLimitCall(identifier) ==
  /\ Len(limiter.calls) < MaxChecks
  /\ LET out == CheckLimit(limiter.limits, identifier, limiter.now)
     IN  limiter' =
           [limiter EXCEPT
              !.limits = out.limits,
              !.calls = Append(@, [identifier |-> identifier,
                                   at |-> limiter.now,
                                   hadEntry |-> MapHas(limiter.limits,
                                                       identifier),
                                   allowed |-> out.result,
                                   opened |->
                                     /\ out.result
                                     /\ MapGet(out.limits,
                                               identifier).count = 1])]
  /\ UNCHANGED limiterRest

\* Line 31: the interval timer runs cleanup().
CleanupTimer ==
  /\ limiter' = [limiter EXCEPT !.limits = Cleanup(@, limiter.now)]
  /\ UNCHANGED limiterRest

\* Time passes: Date.now() grows.
ClockTick ==
  /\ limiter.now < MaxNow
  /\ limiter' = [limiter EXCEPT !.now = @ + 1]
  /\ UNCHANGED limiterRest

NextLimiter ==
  \/ \E identifier \in Identifiers : CheckLimitCall(identifier)
  \/ CleanupTimer
  \/ ClockTick

SpecLimiter == InitLimiter /\ [][NextLimiter]_vars

(***************************************************************************)
(* The web search with retries: searchWeb and withRetry of web-search.ts.  *)
(*                                                                         *)
(* A result page is modelled by the number of results the pattern finds    *)
(* in it, and a result by its position in the page.                        *)
(***************************************************************************)
\* Line 157.
MAX_RETRIES == 2
\* Line 159, in milliseconds.
BACKOFF_DELAYS == <<1000, 2000>>
\* The most results a page holds.
MaxMatches == 3

\* (Faulty variant: every wait is the first delay.)
BackoffDelayFlat(attempt) == BACKOFF_DELAYS[1]
\* Line 223: BACKOFF_DELAYS[attempt] || BACKOFF_DELAYS[length - 1], with
\* the attempt counted from 0.
BackoffDelay(attempt) ==
  IF attempt + 1 <= Len(BACKOFF_DELAYS) /\ BACKOFF_DELAYS[attempt + 1] # 0
  THEN BACKOFF_DELAYS[attempt + 1]
  ELSE BACKOFF_DELAYS[Len(BACKOFF_DELAYS)]

\* Lines 270-283: the results the loop collects from a page with
\* `matches` results: it stops at the end of the page or at maxResults.
RECURSIVE CollectResults(_, _, _)
CollectResults(results, matches, maxResults) ==
  IF Len(results) < matches /\ Len(results) < maxResults
  THEN CollectResults(Append(results, Len(results) + 1), matches, maxResults)
  ELSE results

\* The attempt in progress ends with `outcome` and `results`.
EndAttempt(s, outcome, results) ==
  [s EXCEPT !.attempts[Len(s.attempts)].outcome = outcome,
            !.attempts[Len(s.attempts)].results = results]

\* Lines 208-224 and 228, 287-290: operation() threw.  After the last
\* attempt withRetry throws the error and searchWeb catches it and returns
\* the empty list; before, withRetry sleeps.
AttemptFailed(s, error) ==
  LET t == EndAttempt(s, error, <<>>)
  IN  IF s.attempt = MAX_RETRIES
      THEN [t EXCEPT !.pc = "done", !.lastError = error, !.returned = <<>>]
      ELSE [t EXCEPT !.pc = "sleeping", !.lastError = error,
                     !.sleep = BackoffDelay(s.attempt)]

\* Line 207 and 242: operation() returned, withRetry and searchWeb return
\* what it returned.
AttemptSucceeded(s, results) ==
  [EndAttempt(s, "ok", results) EXCEPT !.pc = "done", !.returned = results]

\* A new attempt, made after a wait of `waited` milliseconds.
NewAttempt(waited) == [waited |-> waited, outcome |-> "pending",
                       results |-> <<>>]

(***************************************************************************)
(* Web search runs: one searchWeb call, the outcomes of its fetches and    *)
(* body reads, and its waits.                                              *)
(***************************************************************************)
InitSearch ==
  /\ CacheAtRest
  /\ cacheEnabled = TRUE
  /\ RetrievalUnused
  /\ ChunkerUnused /\ IngestUnused /\ KeywordsUnused /\ DiversityUnused
  /\ EvaluateUnused
  /\ limiter = NoLimiter
  /\ search = NoSearch
  /\ admin = NoAdmin
  /\ win = NoWindow
  /\ SettingsUnused
  /\ LogsUnused

\* What the web search leaves alone.
searchRest == <<coreVars, limiter, admin, win,
                 settingsTable, setCalls, lvars>>

\* Lines 237-246: searchWeb(query, maxResults) enters withRetry and the
\* first attempt awaits its fetch.
SearchWebCall(maxResults) ==
  /\ search.pc = "idle"
  /\ search' = [search EXCEPT !.pc = "fetching",
                              !.maxResults = maxResults,
                              !.attempts = <<NewAttempt(0)>>]
  /\ UNCHANGED searchRest

\* Lines 246-259: the fetch resolved with a response; a response that is
\* not ok makes the operation throw, another one is read.
FetchResolved(ok, matches) ==
  /\ search.pc = "fetching"
  /\ search' = IF ok
               THEN [search EXCEPT !.pc = "reading", !.page = matches]
               ELSE AttemptFailed(search, "notOk")
  /\ UNCHANGED searchRest

\* Lines 183-193: the fetch rejected, on a network error or on the abort
\* of the timeout.
FetchRejected(error) ==
  /\ search.pc = "fetching"
  /\ search' = AttemptFailed(search, error)
  /\ UNCHANGED searchRest

\* Lines 261-285: the body was read and is parsed; decodeURIComponent
\* throws on a malformed url of a result the loop reaches.
TextResolved(malformed) ==
  /\ search.pc = "reading"
  /\ search' =
       IF malformed /\ search.page > 0 /\ search.maxResults > 0
       THEN AttemptFailed(search, "uriError")
       ELSE AttemptSucceeded(search,
                             CollectResults(<<>>, search.page,
                                            search.maxResults))
  /\ UNCHANGED searchRest

\* Line 261: reading the body rejected.
TextRejected ==
  /\ search.pc = "reading"
  /\ search' = AttemptFailed(search, "body")
  /\ UNCHANGED searchRest

\* Lines 205, 223: the sleep ended and the loop makes the next attempt.
SleepResolved ==
  /\ search.pc = "sleeping"
  /\ search' = [search EXCEPT !.pc = "fetching",
                              !.attempt = @ + 1,
                              !.attempts = Append(@, NewAttempt(search.sleep))]
  /\ UNCHANGED searchRest

\* The steps that the runtime takes for a call in progress.
SearchProgress ==
  \/ \E ok \in BOOLEAN, matches \in 0..MaxMatches : FetchResolved(ok, matches)
  \/ \E error \in {"network", "abort"} : FetchRejected(error)
  \/ \E malformed \in BOOLEAN : TextResolved(malformed)
  \/ TextRejected
  \/ SleepResolved

NextSearch ==
  \/ \E maxResults \in 0..(MaxMatches - 1) : SearchWebCall(maxResults)
  \/ SearchProgress

SpecSearch == InitSearch /\ [][NextSearch]_vars

\* Every fetch ends (with a response, an error or the abort at
\* TIMEOUT_MS), every body read ends and every timer fires.
SpecSearchLive == SpecSearch /\ WF_vars(SearchProgress)

(***************************************************************************)
(* The admin API: requireAdmin of auth.ts and the route handlers that      *)
(* call it.                                                                *)
(*                                                                         *)
(* A request carries an admin-token cookie of one of a few kinds; the      *)
(* jose library accepts a token when it is well formed, signed with the    *)
(* secret and not expired.  The stores are the resources table             *)
(* (documents), the embeddings table (chunks), the settings table and the  *)
(* chat_logs table; a handler's accesses to them are recorded.             *)
(***************************************************************************)
\* The admin-token cookie of a request: none, the empty string, not a
\* JWT, a JWT signed with another key, an expired JWT, a current JWT
\* signed with the secret.
Cookies == {"absent", "", "garbage", "forged", "expired", "valid"}

\* JWT_SECRET of the deployment: a secure one, none, one of
\* INSECURE_SECRETS.
Secrets == {"secure", "missing", "placeholder"}

AdminRoutes ==
  { "GET resources", "POST resources", "DELETE resources/:id",
    "GET settings", "PUT settings", "GET logs", "GET logs/export",
    "GET metrics/rag", "GET metrics/tokens" }

\* What a request to a route can carry besides the cookie.
RouteInputs(route) ==
  CASE route = "POST resources" -> {"content", "noContent", "badJson"}
    [] route = "DELETE resources/:id" -> {"id", "noId"}
    [] route = "PUT settings" -> {"keyValue", "noKey", "badJson"}
    [] route = "GET metrics/rag" -> {"summary", "logs", "full", "report"}
    [] route = "GET metrics/tokens" ->
         {"system", "user", "userNoId", "top-users", "daily"}
    [] OTHER -> {"none"}

\* auth.ts lines 39-64: getSecretKey throws without a secure secret.
GetSecretKey(secret) == IF secret = "secure" THEN "key" ELSE "throws"

\* auth.ts lines 146-153: the payload of a token that jwtVerify accepts,
\* null when jwtVerify or getSecretKey throws.
VerifyToken(token, secret) ==
  IF GetSecretKey(secret) = "throws" THEN "null"
  ELSE IF token = "valid" THEN "payload" ELSE "null"

\* (Faulty variant: any cookie that is present makes a session.)
GetSessionOfAnyToken(cookie, secret) ==
  IF cookie \in {"absent", ""} THEN "null" ELSE "payload"
\* auth.ts lines 167-174: no cookie and the empty cookie give null.
GetSession(cookie, secret) ==
  IF cookie \in {"absent", ""} THEN "null" ELSE VerifyToken(cookie, secret)

\* auth.ts lines 190-198: requireAdmin throws Error("Unauthorized")
\* without a session.
RequireAdmin(cookie, secret) ==
  IF GetSession(cookie, secret) = "null"
  THEN "Unauthorized"
  ELSE GetSession(cookie, secret)

Access(store, op) == [store |-> store, op |-> op]

\* The store accesses of a handler after requireAdmin returned and the
\* request passed the handler's checks.
RouteAccesses(route, input) ==
  CASE route = "GET resources" ->
         <<Access("documents", "read"), Access("chunks", "read")>>
    [] route = "POST resources" ->
         <<Access("documents", "write"), Access("chunks", "write")>>
    [] route = "DELETE resources/:id" ->
         <<Access("documents", "write"), Access("chunks", "write")>>
    [] route = "GET settings" -> <<Access("settings", "read")>>
    [] route = "PUT settings" ->
         <<Access("settings", "read"), Access("settings", "write")>>
    [] route = "GET logs" -> <<Access("chatLogs", "read")>>
    [] route = "GET logs/export" -> <<Access("chatLogs", "read")>>
    [] route = "GET metrics/rag" ->
         IF input \in {"full", "report"}
         THEN <<Access("chunks", "read")>>
         ELSE <<Access("chatLogs", "read")>>
    [] route = "GET metrics/tokens" -> <<Access("chatLogs", "read")>>

\* The status a handler answers with before it reaches a store: 500 when
\* request.json() throws, 400 when a required field is missing, 0 when
\* it goes on.
StatusBeforeStore(input) ==
  IF input = "badJson" THEN 500
  ELSE IF input \in {"noContent", "noId", "noKey", "userNoId"} THEN 400
  ELSE 0

(***************************************************************************)
(* Admin API runs: one request to one route.                               *)
(***************************************************************************)
InitAdmin ==
  /\ CacheAtRest
  /\ cacheEnabled = TRUE
  /\ RetrievalUnused
  /\ ChunkerUnused /\ IngestUnused /\ KeywordsUnused /\ DiversityUnused
  /\ EvaluateUnused
  /\ limiter = NoLimiter
  /\ search = NoSearch
  /\ win = NoWindow
  /\ SettingsUnused
  /\ LogsUnused
  /\ \E secret \in Secrets : admin = [NoAdmin EXCEPT !.secret = secret]

\* What the admin API leaves alone.
adminRest == <<coreVars, limiter, search, win,
                settingsTable, setCalls, lvars>>

\* A request arrives: the handler calls requireAdmin, which awaits the
\* cookies.
AdminRequest(route, cookie, input) ==
  /\ admin.pc = "idle"
  /\ admin' = [admin EXCEPT !.pc = "requireAdmin", !.route = route,
                            !.cookie = cookie, !.input = input]
  /\ UNCHANGED adminRest

\* requireAdmin ended.  When it threw, the handler's catch answers 401;
\* when it returned, the handler checks the request and either answers or
\* calls the store.
RequireAdminResolved ==
  /\ admin.pc = "requireAdmin"
  /\ admin' =
       IF RequireAdmin(admin.cookie, admin.secret) = "Unauthorized"
       THEN [admin EXCEPT !.pc = "done", !.status = 401]
       ELSE IF StatusBeforeStore(admin.input) # 0
            THEN [admin EXCEPT !.pc = "done",
                               !.status = StatusBeforeStore(admin.input)]
            ELSE [admin EXCEPT !.pc = "store",
                               !.accesses =
                                 RouteAccesses(admin.route, admin.input)]
  /\ UNCHANGED adminRest

\* The store calls resolved and the handler answers 200.
StoreResolved ==
  /\ admin.pc = "store"
  /\ admin' = [admin EXCEPT !.pc = "done", !.status = 200]
  /\ UNCHANGED adminRest

\* A store call rejected and the handler's catch answers 500.
StoreRejected ==
  /\ admin.pc = "store"
  /\ admin' = [admin EXCEPT !.pc = "done", !.status = 500]
  /\ UNCHANGED adminRest

NextAdmin ==
  \/ \E route \in AdminRoutes, cookie \in Cookies :
       \E input \in RouteInputs(route) : AdminRequest(route, cookie, input)
  \/ RequireAdminResolved
  \/ StoreResolved
  \/ StoreRejected

SpecAdmin == InitAdmin /\ [][NextAdmin]_vars

(***************************************************************************)
(* The settings store: setSetting of the settings actions, on the          *)
(* settings table whose `key` column is unique.                            *)
(*                                                                         *)
(* Two callers run setSetting at once.  A call is suspended at its select  *)
(* and at its update or insert; the database runs each statement at once   *)
(* when it resolves it, and rejects an insert of a key that is present.    *)
(***************************************************************************)
SettingKeys == {"k1", "k2"}
SettingValues == {"x", "y"}
SetCallers == {1, 2}

\* The rows of the settings table with the key.
RowsWithKey(table, key) == { row \in table : row.key = key }

\* Line 25: update ... set value where key = key.
UpdateSetting(table, key, value) ==
  { IF row.key = key THEN [row EXCEPT !.value = value] ELSE row :
      row \in table }

\* No setSetting call has been made by a caller.
NoSetCall == [pc |-> "idle", key |-> "none", value |-> "none",
              outcome |-> "none"]

InitSettings ==
  /\ CacheAtRest
  /\ cacheEnabled = TRUE
  /\ RetrievalUnused
  /\ ChunkerUnused /\ IngestUnused /\ KeywordsUnused /\ DiversityUnused
  /\ EvaluateUnused
  /\ limiter = NoLimiter
  /\ search = NoSearch
  /\ admin = NoAdmin
  /\ win = NoWindow
  /\ settingsTable \in { {}, { [key |-> "k1", value |-> "old"] } }
  /\ setCalls = [c \in SetCallers |-> NoSetCall]
  /\ LogsUnused

\* What the settings store leaves alone.
settingsRest == <<coreVars, limiter, search, admin, win, lvars>>

\* Lines 17-22: setSetting(key, value) awaits its select.
SetSettingCall(c, key, value) ==
  /\ setCalls[c].pc = "idle"
  /\ setCalls' = [setCalls EXCEPT ![c] = [pc |-> "awaitSelect",
                                          key |-> key, value |-> value,
                                          outcome |-> "none"]]
  /\ UNCHANGED <<settingsTable, settingsRest>>

\* Lines 18-28: the select resolved with the rows of the key at that
\* moment; the call goes on to its update or to its insert.
SettingSelectResolved(c) ==
  /\ setCalls[c].pc = "awaitSelect"
  /\ setCalls' =
       [setCalls EXCEPT ![c].pc =
          IF RowsWithKey(settingsTable, setCalls[c].key) # {}
          THEN "awaitUpdate"
          ELSE "awaitInsert"]
  /\ UNCHANGED <<settingsTable, settingsRest>>

\* Line 25: the update resolved.
SettingUpdateResolved(c) ==
  /\ setCalls[c].pc = "awaitUpdate"
  /\ settingsTable' = UpdateSetting(settingsTable, setCalls[c].key,
                                    setCalls[c].value)
  /\ setCalls' = [setCalls EXCEPT ![c].pc = "done", ![c].outcome = "ok"]
  /\ UNCHANGED settingsRest

\* Line 27: the insert ended.  The unique constraint on `key`
\* (schema line 45) makes the database reject the insert of a key that is
\* present, and setSetting rejects with that error.
SettingInsertEnded(c) ==
  /\ setCalls[c].pc = "awaitInsert"
  /\ IF RowsWithKey(settingsTable, setCalls[c].key) # {}
     THEN /\ setCalls' = [setCalls EXCEPT ![c].pc = "done",
                                          ![c].outcome = "uniqueViolation"]
          /\ UNCHANGED settingsTable
     ELSE /\ settingsTable' =
               settingsTable \cup { [key |-> setCalls[c].key,
                                     value |-> setCalls[c].value] }
          /\ setCalls' = [setCalls EXCEPT ![c].pc = "done",
                                          ![c].outcome = "ok"]
  /\ UNCHANGED settingsRest

NextSettings ==
  \/ \E c \in SetCallers, key \in SettingKeys, value \in SettingValues :
       SetSettingCall(c, key, value)
  \/ \E c \in SetCallers : SettingSelectResolved(c)
  \/ \E c \in SetCallers : SettingUpdateResolved(c)
  \/ \E c \in SetCallers : SettingInsertEnded(c)

SpecSettings == InitSettings /\ [][NextSettings]_vars

(***************************************************************************)
(* The chat logs and their traversal with getChatLogsCursor                *)
(* (lib/actions/chat-logs.ts).  A row of chat_logs is its id and its       *)
(* createdAt; the ids are unique, the createdAt values need not be.        *)
(***************************************************************************)
MaxLogs == 3
MaxTime == 2
MaxLimit == 2

LogIds == 1 .. MaxLogs
Times == 1 .. MaxTime

\* The cursor parameter left out (cursor?: string).
NoCursor == 0

\* The limits a caller passes.
Limits == 0 .. MaxLimit

\* The tables of at most maxLogs rows.
LogTables(maxLogs) ==
  UNION { { { [id |-> i, createdAt |-> f[i]] : i \in S } :
              f \in [S -> Times] } :
          S \in SUBSET (1 .. maxLogs) }

\* Line 35: Math.min(Math.max(1, limit), 1000).
SafeLimit(limit) ==
  LET atLeastOne == IF limit < 1 THEN 1 ELSE limit
  IN IF atLeastOne > 1000 THEN 1000 ELSE atLeastOne

\* orderBy(desc(chatLogs.createdAt)): the orders the database may return
\* the rows in.  Rows of equal createdAt come in any order.
DescOrders(rows) ==
  { order \in [1 .. Cardinality(rows) -> rows] :
      /\ \A i, j \in DOMAIN order : i # j => order[i] # order[j]
      /\ \A i, j \in DOMAIN order :
           i < j => order[i].createdAt >= order[j].createdAt }

\* .limit(safeLimit) of an ordered result.
LimitRows(order, safeLimit) ==
  SubSeq(order, 1, IF Len(order) < safeLimit THEN Len(order) ELSE safeLimit)

\* Lines 50-55: where(lt(chatLogs.createdAt, cursorItem[0].createdAt)).
OlderThan(table, createdAt) ==
  { row \in table : row.createdAt < createdAt }

\* Lines 34-65: the pages getChatLogsCursor(limit, cursor) may return on
\* the table.
GetChatLogsCursor(table, limit, cursor) ==
  LET safeLimit == SafeLimit(limit)
      cursorItem == { row \in table : row.id = cursor }
  IN IF cursor # NoCursor
     THEN IF cursorItem = {}
          THEN { <<>> }
          ELSE LET item == CHOOSE row \in cursorItem : TRUE
               IN { LimitRows(order, safeLimit) :
                      order \in DescOrders(OlderThan(table,
                                                      item.createdAt)) }
     ELSE { LimitRows(order, safeLimit) : order \in DescOrders(table) }

InitLogs ==
  /\ CacheAtRest
  /\ cacheEnabled = TRUE
  /\ RetrievalUnused
  /\ ChunkerUnused /\ IngestUnused /\ KeywordsUnused /\ DiversityUnused
  /\ EvaluateUnused
  /\ limiter = NoLimiter
  /\ search = NoSearch
  /\ admin = NoAdmin
  /\ win = NoWindow
  /\ SettingsUnused
  /\ chatLogs \in LogTables(MaxLogs)
  /\ traversal = NoTraversal

\* What the traversal of the logs leaves alone.
logsRest == <<coreVars, limiter, search, admin, win, settingsTable,
              setCalls>>

\* Lines 34-65: one call of getChatLogsCursor.  The first call of a
\* traversal passes any cursor or none; each later call passes the id of
\* the last item of the previous page, and the traversal ends with the
\* first empty page.  No row is inserted or deleted.
GetChatLogsCursorCall(limit, cursor) ==
  /\ traversal.pc # "done"
  /\ traversal.pc = "paging" => cursor = traversal.cursor
  /\ \E page \in GetChatLogsCursor(chatLogs, limit, cursor) :
       traversal' =
         [pc |-> IF page = <<>> THEN "done" ELSE "paging",
          start |-> IF traversal.pc = "idle" THEN cursor
                    ELSE traversal.start,
          cursor |-> IF page = <<>> THEN traversal.cursor
                     ELSE page[Len(page)].id,
          visited |-> traversal.visited \o
                      [k \in 1 .. Len(page) |-> page[k].id],
          calls |-> traversal.calls + 1]
  /\ UNCHANGED chatLogs

NextLogs ==
  \E limit \in Limits, cursor \in LogIds \cup {NoCursor} :
    GetChatLogsCursorCall(limit, cursor) /\ UNCHANGED logsRest

SpecLogs == InitLogs /\ [][NextLogs]_vars

(***************************************************************************)
(* Claims about the embedding cache.                                       *)
(***************************************************************************)
AllIdle == \A c \in Calls : pc[c] = "idle"

NoDuplicateKeys(m) ==
  \A i, j \in 1..Len(m) : m[i].key = m[j].key => i = j

\* Every step sets `last`, so a non-stuttering step whose last'.op is
\* "miss" is the completion of a miss (EmbedResolved) for last'.text with
\* vector last'.result; likewise "hit" and "call" are the two outcomes of
\* GenerateEmbeddingCall and "fail" is EmbedRejected.

\* C1: whenever no generateEmbedding call is in progress the cache holds
\* at most CACHE_MAX_SIZE entries, whatever texts were embedded (the text
\* " ", whose key is the empty string, included) and whatever clears
\* happened.
C1_SizeAtMostMaxWhenIdle == AllIdle => Len(cache) <= CACHE_MAX_SIZE

\* C2: when the cache holds CACHE_MAX_SIZE entries and a completed miss
\* inserts a key that is not present, exactly the earliest-inserted entry
\* is removed, every other entry stays and the new one is last.
C2_FullCacheEvictsExactlyOldest ==
  [][ ( /\ cacheEnabled
        /\ last'.op = "miss"
        /\ Len(cache) = CACHE_MAX_SIZE
        /\ ~MapHas(cache, CacheKey(last'.text)) )
      => cache' = Append(Tail(cache),
                         [key |-> CacheKey(last'.text),
                          value |-> last'.result]) ]_vars

\* C3: a cache hit, and a put of a key that is already present, leave the
\* order of the keys (the eviction order) as it was.
C3_HitAndRePutKeepOrder ==
  [][ ( \/ last'.op = "hit"
        \/ /\ last'.op = "miss"
           /\ cacheEnabled
           /\ MapHas(cache, CacheKey(last'.text)) )
      => MapKeys(cache') = MapKeys(cache) ]_vars

\* C3 witness: a miss has just completed for a key that is not the
\* newest of the cache: it was put again and kept its place.
C3_Witness_RePutNotLast ==
  /\ last.op = "miss"
  /\ \E i \in 1..(Len(cache) - 1) :
       cache[i].key = CacheKey(last.text) /\ cache[i].value = last.result

\* C4: with caching enabled, when a miss for text t has just completed
\* with vector v and the very next step is a call for t, that call is a
\* hit (no embed() call is started) and returns v.
C4_MissThenCallHitsSameVector ==
  [][ ( /\ cacheEnabled
        /\ last.op = "miss"
        /\ last'.op \in {"hit", "call"}
        /\ last'.text = last.text )
      => (last'.op = "hit" /\ last'.result = last.result /\ pc' = pc) ]_vars

\* C4 witness: a hit for the text whose miss completed in the step before,
\* in a full cache.
C4_Witness_HitRightAfterMiss ==
  /\ last.op = "hit"
  /\ last.prev = last.text
  /\ Len(cache) = CACHE_MAX_SIZE

\* C6: under every interleaving of concurrent calls the cache never holds
\* more than CACHE_MAX_SIZE entries, never holds a key twice, and a
\* completed miss removes no entry other than the earliest-inserted one.
C6_ConcurrentCallsKeepCacheSound ==
  [][ /\ Len(cache') <= CACHE_MAX_SIZE
      /\ NoDuplicateKeys(cache')
      /\ last'.op = "miss" =>
           \A i \in 2..Len(cache) : MapHas(cache', cache[i].key) ]_vars

\* C7: the step in which embed() fails hands the failure to the caller and
\* leaves the cache as it was, and so does the step that started the call:
\* a failed generateEmbedding adds, changes and evicts nothing.
C7_FailureLeavesCacheUntouched ==
  [][ /\ last'.op = "fail" => (cache' = cache /\ last'.result = "rejected")
      /\ last'.op = "call" => cache' = cache ]_vars

\* C7 witness: embed() has just failed while the cache is full.
C7_Witness_FailedOnFullCache ==
  /\ last.op = "fail"
  /\ last.result = "rejected"
  /\ Len(cache) = CACHE_MAX_SIZE


(***************************************************************************)
(* Claims about the cache key.                                             *)
(***************************************************************************)
\* A text with every run of white space replaced by one space.
RECURSIVE SqueezeWhiteSpace(_)
SqueezeWhiteSpace(s) ==
  IF s = <<>> THEN <<>>
  ELSE IF IsWhiteSpace(Head(s))
       THEN <<" ">> \o SqueezeWhiteSpace(TrimStart(s))
       ELSE <<Head(s)>> \o SqueezeWhiteSpace(Tail(s))

\* Two texts differ only in letter case, in leading, trailing or internal
\* white space, or in newlines.
SameUpToCaseAndWhiteSpace(t, u) ==
  ToLowerCase(SqueezeWhiteSpace(Trim(t))) =
    ToLowerCase(SqueezeWhiteSpace(Trim(u)))

\* Two characters are the same letter in either case, or one is a newline
\* where the other is a space.
SameCharUpToCaseAndNewline(x, y) ==
  \/ LowerChar(x) = LowerChar(y)
  \/ {x, y} \subseteq {" ", "\n"}

\* Two texts differ only in letter case, in leading or trailing white
\* space, or in having a newline where the other has a space.
SameUpToCaseEdgesAndNewlines(t, u) ==
  LET a == Trim(t)
      b == Trim(u)
  IN  /\ Len(a) = Len(b)
      /\ \A i \in 1..Len(a) : SameCharUpToCaseAndNewline(a[i], b[i])

\* C5 as claimed: when the miss for a first text has just completed, a
\* call for any text that differs from it only in letter case, white space
\* (leading, trailing or internal) or newlines hits the cache.
C5_SameUpToCaseWhiteSpaceSharesEntry ==
  [][ ( /\ last.op = "miss"
        /\ last'.op \in {"hit", "call"}
        /\ SameUpToCaseAndWhiteSpace(last.text, last'.text) )
      => last'.op = "hit" ]_vars

\* C5 as amended: when the miss for a first text has just completed, a
\* call for any text that differs from it only in letter case, in leading
\* or trailing white space, or in having a newline where the other has a
\* space hits the cache and returns the first text's vector.
C5_SameUpToCaseEdgesNewlinesSharesEntry ==
  [][ ( /\ last.op = "miss"
        /\ last'.op \in {"hit", "call"}
        /\ SameUpToCaseEdgesAndNewlines(last.text, last'.text) )
      => (last'.op = "hit" /\ last'.result = last.result) ]_vars

\* C5 witness: a hit right after the miss of a different text, the two
\* differing in letter case and in a newline against a space.
C5_Witness_HitOnOtherSpelling ==
  /\ last.op = "hit"
  /\ last.prev # NoMiss
  /\ last.prev # last.text
  /\ ToLowerCase(last.prev) # ToLowerCase(last.text)
  /\ Trim(last.prev) # Trim(last.text)
  /\ \E i \in 1..Len(last.text) : last.text[i] = "\n"

(***************************************************************************)
(* Claims about findRelevantContent.                                       *)
(***************************************************************************)
\* The cosine similarity the vector store computed for chunk `id` and the
\* query vector.
RawSimilarity(id, vec) == (CHOOSE r \in Pool : r.id = id).sim[vec]

\* The score the results of a call are ranked by: the combined score when
\* the call rescored them, the raw similarity otherwise.
ActiveScore(res) ==
  IF BoostApplies(opts)
  THEN HybridScore(RawSimilarity(res.id, queryVec),
                   KeywordBoost(res.content, opts.keywords))
  ELSE RawSimilarity(res.id, queryVec)

\* C8: the similarity reported on every returned result is the chunk's raw
\* cosine similarity and is strictly greater than similarityThreshold, with
\* or without keyword boost.
C8_ReportedSimilarityIsRawAndAboveThreshold ==
  ret.status = "ok" =>
    \A i \in 1..Len(ret.results) :
      /\ ret.results[i].similarity = RawSimilarity(ret.results[i].id, queryVec)
      /\ ret.results[i].similarity > opts.similarityThreshold

\* C9: the returned sequence is non-increasing in the active score: the raw
\* similarity when the results were not rescored, the combined score when
\* they were.
C9_ResultsNonIncreasingInActiveScore ==
  ret.status = "ok" =>
    \A i \in 1..(Len(ret.results) - 1) :
      ActiveScore(ret.results[i]) >= ActiveScore(ret.results[i + 1])

\* C9 witness: a rescored list of at least two results in which a result
\* of lower raw similarity comes before one of higher raw similarity.
C9_Witness_RescoredAndReordered ==
  /\ ret.status = "ok"
  /\ BoostApplies(opts)
  /\ \E i \in 1..(Len(ret.results) - 1) :
       /\ RawSimilarity(ret.results[i].id, queryVec) <
            RawSimilarity(ret.results[i + 1].id, queryVec)
       /\ ActiveScore(ret.results[i]) > ActiveScore(ret.results[i + 1])

\* C10: a call whose embedding or vector-store query failed ends in a
\* failure, never in a returned list; a call returns a list only after the
\* store answered, and when no row passes the threshold and the filters
\* (the empty corpus included) it returns the empty list without error.
C10_NoResultsIsNotFailure ==
  /\ ret.end \in {"embedRejected", "queryRejected"} => ret.status = "failed"
  /\ ret.status = "ok" => ret.end = "queryResolved"
  /\ (ret.end = "queryResolved" /\ Qualifying(corpus, queryVec, opts) = {})
       => (ret.status = "ok" /\ ret.results = <<>>)

\* C10 witness: the query failed although rows of the corpus would have
\* been returned.
C10_Witness_FailedQueryWithCandidates ==
  /\ ret.end = "queryRejected"
  /\ ret.status = "failed"
  /\ Qualifying(corpus, queryVec, opts) # {}

\* The ids of the elements of a sequence of rows or results.
IdsOf(s) == { s[i].id : i \in 1..Len(s) }

\* C11: a call returns at most min(topK, finalResults) results, also when
\* finalResults is greater than topK, and the returned results are the
\* first ones of the candidate list the store answered, as sorted by the
\* active score: no candidate left out scores higher than a returned one.
C11_AtMostTopKAndFinalFirstOfSorted ==
  ret.end = "queryResolved" =>
    /\ Len(ret.results) <= Min(opts.topK, opts.finalResults)
    /\ \E rows \in QueryAnswers(corpus, queryVec, opts) :
         /\ Len(ret.results) = Min(opts.finalResults, Len(rows))
         /\ IdsOf(ret.results) \subseteq IdsOf(rows)
         /\ \A i \in 1..Len(rows) :
              rows[i].id \notin IdsOf(ret.results) =>
                \A j \in 1..Len(ret.results) :
                  ActiveScore(rows[i]) <= ActiveScore(ret.results[j])

\* C11 witness: finalResults is greater than topK, more than topK rows
\* qualify, and the call returned topK results after rescoring.
C11_Witness_FinalAboveTopK ==
  /\ ret.end = "queryResolved"
  /\ opts.finalResults > opts.topK
  /\ BoostApplies(opts)
  /\ Cardinality(Qualifying(corpus, queryVec, opts)) > opts.topK
  /\ Len(ret.results) = opts.topK

\* C12: when the results were rescored, every returned result carries its
\* raw cosine similarity in `similarity` and the combined score in
\* `score`.
C12_RescoredResultCarriesRawAndCombined ==
  (ret.status = "ok" /\ BoostApplies(opts)) =>
    \A i \in 1..Len(ret.results) :
      LET res == ret.results[i]
          raw == RawSimilarity(res.id, queryVec)
      IN  /\ res.similarity = raw
          /\ res.score = HybridScore(raw, KeywordBoost(res.content,
                                                       opts.keywords))

\* The content holds every keyword at least once, letter case aside.
ContainsEveryKeyword(content, keywords) ==
  \A k \in 1..Len(keywords) :
    Contains(ToLowerCase(content), ToLowerCase(keywords[k]))

\* C13: with VECTOR_WEIGHT + KEYWORD_WEIGHT = 1, a rescored result whose
\* content holds every supplied keyword has a combined score that is not
\* lower than its raw similarity.
C13_AllKeywordsScoreNoLowerThanRaw ==
  (ret.status = "ok" /\ BoostApplies(opts)
     /\ VECTOR_WEIGHT + KEYWORD_WEIGHT = 10) =>
    \A i \in 1..Len(ret.results) :
      ContainsEveryKeyword(ret.results[i].content, opts.keywords) =>
        ret.results[i].score >=
          RawSimilarity(ret.results[i].id, queryVec)

(***************************************************************************)
(* Claims about the chunker.                                               *)
(***************************************************************************)
\* No strategy yields a valid segment for the document.
NoValidSegment(d) ==
  /\ ValidArticles(Trim(d)) = <<>>
  /\ ValidParagraphs(Trim(d)) = <<>>
  /\ WindowChunks(Trim(d)) = <<>>

\* C14: generateChunks returns at least one chunk for every document, and
\* when no strategy yields a valid segment it returns exactly one chunk,
\* the whole trimmed document.
C14_AtLeastOneChunkAndFallback ==
  chunks.done =>
    /\ Len(chunks.list) >= 1
    /\ NoValidSegment(doc) => chunks.list = << Trim(doc) >>

\* C15: every returned chunk has between MIN_CHUNK_SIZE and MAX_CHUNK_SIZE
\* characters, but for the single fallback chunk of a document shorter
\* than MIN_CHUNK_SIZE.
C15_ChunkLengthWithinLimits ==
  chunks.done =>
    \A k \in 1..Len(chunks.list) :
      \/ /\ Len(chunks.list[k]) >= MIN_CHUNK_SIZE
         /\ Len(chunks.list[k]) <= MAX_CHUNK_SIZE
      \/ /\ Len(chunks.list) = 1
         /\ Len(Trim(doc)) < MIN_CHUNK_SIZE
         /\ chunks.list[1] = Trim(doc)

\* A text with its white space removed.
RECURSIVE StripWhiteSpace(_)
StripWhiteSpace(s) ==
  IF s = <<>> THEN <<>>
  ELSE IF IsWhiteSpace(Head(s)) THEN StripWhiteSpace(Tail(s))
  ELSE << Head(s) >> \o StripWhiteSpace(Tail(s))

IsPrefixOf(p, s) == Len(p) <= Len(s) /\ SubSeq(s, 1, Len(p)) = p

\* The first m characters of `cur` are the last m characters of `prev`.
SharesWithPrevious(prev, cur, m) ==
  /\ m <= Len(prev)
  /\ m <= Len(cur)
  /\ SubSeq(prev, Len(prev) - m + 1, Len(prev)) = SubSeq(cur, 1, m)

\* The chunks `rest`, each without some part it shares with the chunk
\* before it, concatenate to `target`.
RECURSIVE CoresRebuild(_, _, _)
CoresRebuild(prev, rest, target) ==
  IF rest = <<>> THEN target = <<>>
  ELSE \E m \in 0..Len(Head(rest)) :
         /\ SharesWithPrevious(prev, Head(rest), m)
         /\ LET core == SubSeq(Head(rest), m + 1, Len(Head(rest)))
            IN  /\ IsPrefixOf(core, target)
                /\ CoresRebuild(Head(rest), Tail(rest),
                                SubSeq(target, Len(core) + 1, Len(target)))

\* C16: the chunks, each without the part it shares with the chunk before
\* it, concatenated in order give back the document, white space aside.
C16_ChunkCoresRebuildDocument ==
  chunks.done =>
    CoresRebuild(<<>>, [k \in 1..Len(chunks.list) |->
                          StripWhiteSpace(chunks.list[k])],
                 StripWhiteSpace(doc))

(***************************************************************************)
(* Claims about ingestion.                                                 *)
(***************************************************************************)
\* The rows of the embeddings table that belong to a resource.
ChunksStoredFor(resourceId) ==
  { e \in embeddingsTable : e.resourceId = resourceId }

\* C17: when the embedding of the batch failed, createResource reports
\* failure and no chunk of the document is stored; at every moment a
\* document has either none or all of its chunks stored.
C17_FailedBatchStoresNoChunk ==
  /\ ingest.end = "embedMany" =>
       /\ ingest.outcome = "failed"
       /\ ChunksStoredFor(ingest.resourceId) = {}
  /\ \A r \in resourcesTable :
       Cardinality(ChunksStoredFor(r.id)) \in
         {0, Len(GenerateChunks(r.content))}

\* C17 witness: the embedding of a batch of several chunks has just
\* failed for the second document, the first one being stored.
C17_Witness_BatchOfSeveralFailed ==
  /\ ingest.end = "embedMany"
  /\ ingest.outcome = "failed"
  /\ Len(ingest.data) >= 2
  /\ ingest.resourceId = 2
  /\ ChunksStoredFor(1) # {}

(***************************************************************************)
(* Claims about the keyword extractor.                                     *)
(***************************************************************************)
\* A token of the text starts at index i: a character that is not white
\* space, at the start or after white space.
TokenStartsAt(s, i) ==
  /\ ~IsWhiteSpace(s[i])
  /\ i = 1 \/ IsWhiteSpace(s[i - 1])

\* The token that starts at i: the characters up to the next white space.
TokenAt(s, i) ==
  LET stop == { j \in i..Len(s) : IsWhiteSpace(s[j]) }
      end == IF stop = {} THEN Len(s)
             ELSE (CHOOSE j \in stop : \A k \in stop : j <= k) - 1
  IN  SubSeq(s, i, end)

\* Where the tokens start that are longer than 3 characters and are no
\* stop words, letter case aside.
KeywordStarts(s) ==
  { i \in 1..Len(s) :
      /\ TokenStartsAt(s, i)
      /\ Len(TokenAt(s, i)) > 3
      /\ ToLowerCase(TokenAt(s, i)) \notin StopWords }

\* C18: extractKeywords returns at most 5 terms: the lower-cased tokens of
\* the query that are longer than 3 characters and are no stop words, the
\* first 5 of them in the order of the query (all of them if fewer),
\* repeated tokens repeated.
C18_FirstFiveKeptTokensInOrder ==
  kwResult.done =>
    LET starts == KeywordStarts(kwQuery) IN
      /\ Len(kwResult.list) <= 5
      /\ Len(kwResult.list) = Min(5, Cardinality(starts))
      /\ \A k \in 1..Len(kwResult.list) :
           \E i \in starts :
             /\ Cardinality({ j \in starts : j <= i }) = k
             /\ kwResult.list[k] = ToLowerCase(TokenAt(kwQuery, i))

\* C18 witness: a query with white space around it, with a stop word, a
\* short word and six tokens to keep, for which five terms were returned,
\* two of them equal and two of them different.
C18_Witness_SixKeptFiveReturned ==
  /\ kwResult.done
  /\ Len(kwResult.list) = 5
  /\ Cardinality(KeywordStarts(kwQuery)) > 5
  /\ IsWhiteSpace(kwQuery[1])
  /\ kwResult.list[1] = kwResult.list[2]
  /\ kwResult.list[2] # kwResult.list[3]

(***************************************************************************)
(* Claims about the diversity metric.                                      *)
(***************************************************************************)
\* Every result has an owning document and no two results have the same.
DistinctOwners(results) ==
  /\ \A k \in 1..Len(results) : results[k].resourceId # NoResourceId
  /\ \A k, l \in 1..Len(results) :
       results[k].resourceId = results[l].resourceId => k = l

\* C19: the diversity of every result list is greater than 0 and at most
\* 1; it is 1 for lists of 0 or 1 results and for lists whose results all
\* have different owning documents.
C19_DiversityInRangeAndOneWhenDistinct ==
  divResult.done =>
    /\ divResult.den > 0
    /\ divResult.num > 0
    /\ divResult.num <= divResult.den
    /\ Len(divResults) <= 1 => divResult.num = divResult.den
    /\ DistinctOwners(divResults) => divResult.num = divResult.den

\* C19 witness: the diversity 1 was computed for three results of three
\* documents.
C19_Witness_ThreeDistinctOwners ==
  /\ divResult.done
  /\ Len(divResults) = 3
  /\ DistinctOwners(divResults)
  /\ divResult.num = divResult.den

(***************************************************************************)
(* Claims about the evaluation.                                            *)
(***************************************************************************)
RatEqual(a, b) == a.num * b.den = b.num * a.den

\* The mean similarities of the queries that returned at least one result.
MeansOfAnswered ==
  { AvgSimilarity(ev.returned[k]) :
      k \in { q \in 1..Len(ev.returned) : Len(ev.returned[q]) > 0 } }

\* C20: when some query returned a result, the reported minSimilarity is
\* the smallest and the reported maxSimilarity the largest of the mean
\* similarities of the queries that returned at least one result.
C20_MinMaxOverAnsweredQueries ==
  (ev.pc = "done" /\ MeansOfAnswered # {}) =>
    /\ \E m \in MeansOfAnswered :
         /\ RatEqual(ev.metrics.minSimilarity, m)
         /\ \A n \in MeansOfAnswered : ~RatLess(n, m)
    /\ \E m \in MeansOfAnswered :
         /\ RatEqual(ev.metrics.maxSimilarity, m)
         /\ \A n \in MeansOfAnswered : ~RatLess(m, n)

(***************************************************************************)
(* Claims about the search rate limiter.                                   *)
(***************************************************************************)
\* The allowed calls with the identifier of call k from the time t of
\* call k until t + windowMs.
AllowedInWindowOf(k) ==
  { j \in 1..Len(limiter.calls) :
      /\ limiter.calls[j].identifier = limiter.calls[k].identifier
      /\ limiter.calls[j].allowed
      /\ limiter.calls[k].at <= limiter.calls[j].at
      /\ limiter.calls[j].at < limiter.calls[k].at + WINDOW_MS }

\* C21: for every identifier and every window opened by an allowed
\* request at a time t, at most maxRequests checkLimit calls with that
\* identifier return true from t until t + windowMs, whatever the calls
\* for other identifiers and the cleanup runs in between.
C21_AtMostMaxRequestsPerWindow ==
  \A k \in 1..Len(limiter.calls) :
    limiter.calls[k].opened =>
      Cardinality(AllowedInWindowOf(k)) <= MAX_REQUESTS

\* C21 witness: a window of "u1" in which maxRequests calls were allowed
\* and a later one rejected, with a call of "u2" and a cleanup run that
\* removed an entry of "u2" in between.
C21_Witness_FullWindowAmongOthers ==
  \E k, r, o \in 1..Len(limiter.calls) :
    /\ limiter.calls[k].identifier = "u1"
    /\ limiter.calls[k].opened
    /\ Cardinality(AllowedInWindowOf(k)) = MAX_REQUESTS
    /\ limiter.calls[r].identifier = "u1"
    /\ ~limiter.calls[r].allowed
    /\ limiter.calls[r].at < limiter.calls[k].at + WINDOW_MS
    /\ k < o /\ o < r
    /\ limiter.calls[o].identifier = "u2"
    /\ limiter.calls[o].opened
    /\ ~MapHas(limiter.limits, "u2")

\* The calls that opened a window of the identifier.
Openers(identifier) ==
  { j \in 1..Len(limiter.calls) :
      /\ limiter.calls[j].identifier = identifier
      /\ limiter.calls[j].opened }

\* The greatest number of a non-empty set of numbers.
Greatest(S) == CHOOSE n \in S : \A m \in S : m <= n

\* C27: a rejected checkLimit call leaves the map of the limiter as it
\* was, and a checkLimit call made at or after the reset time of the
\* identifier's latest window returns true and leaves the entry
\* {count: 1, resetAt: now + windowMs}, with or without the old entry in
\* the map.
C27_RejectedKeepsWindowAndExpiredWindowReopens ==
  [][ Len(limiter'.calls) = Len(limiter.calls) + 1 =>
        LET c == limiter'.calls[Len(limiter'.calls)]
        IN  /\ ~c.allowed => limiter'.limits = limiter.limits
            /\ ( /\ Openers(c.identifier) # {}
                 /\ c.at >= limiter.calls[Greatest(Openers(c.identifier))].at
                              + WINDOW_MS )
                 => /\ c.allowed
                    /\ c.opened
                    /\ MapHas(limiter'.limits, c.identifier)
                    /\ MapGet(limiter'.limits, c.identifier) =
                         [count |-> 1, resetAt |-> c.at + WINDOW_MS] ]_vars

\* C27 witness: an identifier was rejected, and later allowed twice at or
\* after a reset time: once after cleanup had removed its entry and once
\* with the old entry still in the map.
C27_Witness_RecoveredWithAndWithoutEntry ==
  \E r, a, b \in 1..Len(limiter.calls) :
    /\ limiter.calls[r].identifier = "u1"
    /\ ~limiter.calls[r].allowed
    /\ limiter.calls[a].identifier = "u1"
    /\ limiter.calls[b].identifier = "u1"
    /\ r < a /\ r < b
    /\ limiter.calls[a].opened /\ ~limiter.calls[a].hadEntry
    /\ limiter.calls[b].opened /\ limiter.calls[b].hadEntry

(***************************************************************************)
(* Claims about the web search.                                            *)
(***************************************************************************)
\* At every moment of a searchWeb call: at most MAX_RETRIES + 1 attempts
\* were made, none after one that succeeded, the second after a wait of
\* 1000 ms and the third after a wait of 2000 ms; a call that ended
\* returned the results of its successful attempt, or the empty list after
\* three failed attempts.
SearchWebWithinRetries ==
  LET n == Len(search.attempts)
  IN  /\ n <= 3
      /\ \A k \in 1..(n - 1) :
           search.attempts[k].outcome \notin {"ok", "pending"}
      /\ n >= 1 => search.attempts[1].waited = 0
      /\ n >= 2 => search.attempts[2].waited = 1000
      /\ n >= 3 => search.attempts[3].waited = 2000
      /\ search.pc = "done" =>
           /\ n >= 1
           /\ search.attempts[n].outcome # "pending"
           /\ IF search.attempts[n].outcome = "ok"
              THEN search.returned = search.attempts[n].results
              ELSE n = 3 /\ search.returned = <<>>

ValidAdminSession == admin.cookie = "valid" /\ admin.secret = "secure"

\* C23: a request to an admin route other than login that carries no
\* valid admin session is answered with 401 and makes no read or write of
\* the document, chunk, settings or chat-log store.
C23_NoSessionGets401AndNoStoreAccess ==
  (admin.pc # "idle" /\ ~ValidAdminSession) =>
    /\ admin.accesses = <<>>
    /\ admin.pc \in {"requireAdmin", "done"}
    /\ admin.pc = "done" => admin.status = 401

\* C23 witness: a request to delete a resource that carried an expired
\* token was answered with 401.
C23_Witness_ExpiredTokenRejected ==
  /\ admin.pc = "done"
  /\ admin.route = "DELETE resources/:id"
  /\ admin.input = "id"
  /\ admin.cookie = "expired"
  /\ admin.secret = "secure"
  /\ admin.status = 401

(***************************************************************************)
(* Claims about the order of the chunking strategies and the overlap of    *)
(* the sliding window.                                                     *)
(***************************************************************************)
\* What the paragraph split, and after it the sliding window, return for
\* a trimmed document.
ParagraphsThenWindow(trimmedInput) ==
  IF /\ Len(SplitParagraphs(trimmedInput)) > 1
     /\ Len(ValidParagraphs(trimmedInput)) > 0
  THEN ValidParagraphs(trimmedInput)
  ELSE CreateSlidingWindowChunks(trimmedInput)

\* C24: generateChunks returns the segments of the article split when at
\* least 2 of them have a length within [MIN_CHUNK_SIZE, MAX_CHUNK_SIZE];
\* when 0 or 1 of them have, it returns what the paragraph split and then
\* the sliding window give.
C24_ArticleSplitNeedsTwoValidSegments ==
  chunks.done =>
    IF Len(ValidArticles(Trim(doc))) >= 2
    THEN chunks.list = ValidArticles(Trim(doc))
    ELSE chunks.list = ParagraphsThenWindow(Trim(doc))

\* The last k elements of a list, none when k is 0.
LastUnits(arr, k) == SubSeq(arr, Len(arr) - k + 1, Len(arr))

\* C25: each time the loop of the sliding window flushes a buffer of n
\* sentences, the next buffer is the last floor(n * 0.2) sentences of the
\* flushed buffer, none when n < 5, followed by the sentence of the turn.
C25_NextBufferSeededWithLastFifth ==
  [][ (win.pc = "loop" /\ win'.pc = "loop" /\ win'.flushed) =>
        LET n == Len(win.w.currentChunk)
        IN  win'.w.currentChunk =
              Append(LastUnits(win.w.currentChunk, n \div 5),
                     Trim(win.sentences[win.i])) ]_vars

(***************************************************************************)
(* Claims about the keywords of the hybrid score.                          *)
(***************************************************************************)
\* The occurrences of `sub` as a literal substring of `s` from position i
\* on, counted left to right without overlap.
RECURSIVE LiteralOccurrencesFrom(_, _, _)
LiteralOccurrencesFrom(s, sub, i) ==
  IF i + Len(sub) - 1 > Len(s) THEN 0
  ELSE IF SubSeq(s, i, i + Len(sub) - 1) = sub
       THEN 1 + LiteralOccurrencesFrom(s, sub, i + Len(sub))
       ELSE LiteralOccurrencesFrom(s, sub, i + 1)

\* 0.1 for each literal occurrence, letter case aside, of each keyword.
RECURSIVE LiteralBoost(_, _)
LiteralBoost(content, keywords) ==
  IF keywords = <<>> THEN 0
  ELSE LiteralOccurrencesFrom(ToLowerCase(content),
                              ToLowerCase(Head(keywords)), 1) * MATCH_BOOST
       + LiteralBoost(content, Tail(keywords))

\* C26: when the hybrid rescoring is applied, the combined score of each
\* result is similarity * 0.7 + min(0.1 * n, 0.3) * 0.3, n being the
\* number of occurrences of the keywords in the content as literal
\* substrings, letter case aside, also for keywords with punctuation.
C26_CombinedScoreCountsLiteralOccurrences ==
  (ret.status = "ok" /\ BoostApplies(opts)) =>
    \A i \in 1..Len(ret.results) :
      ret.results[i].score =
        HybridScore(RawSimilarity(ret.results[i].id, queryVec),
                    LiteralBoost(ret.results[i].content, opts.keywords))

(***************************************************************************)
(* Claims about the settings store.                                        *)
(***************************************************************************)
\* C28: when two concurrent setSetting calls on the same key have ended,
\* both ended without error and the table holds exactly one row for the
\* key, with the value one of the two calls wrote.
C28_ConcurrentSetSettingBothSucceed ==
  ( /\ setCalls # <<>>
    /\ \A c \in SetCallers : setCalls[c].pc = "done"
    /\ setCalls[1].key = setCalls[2].key ) =>
    /\ \A c \in SetCallers : setCalls[c].outcome = "ok"
    /\ Cardinality(RowsWithKey(settingsTable, setCalls[1].key)) = 1
    /\ \E row \in RowsWithKey(settingsTable, setCalls[1].key) :
         row.value \in { setCalls[1].value, setCalls[2].value }

(***************************************************************************)
(* Claims about failed ingestion.                                          *)
(***************************************************************************)
\* The rows of the resources table that a call with the resource id made.
ResourcesStoredFor(resourceId) ==
  { r \in resourcesTable : r.id = resourceId }

\* C29: when createResource has reported failure, the resources table and
\* the embeddings table hold what they held before the call: no row of the
\* failed call is in either of them.
C29_FailedCreateResourceLeavesNoRow ==
  ingest.outcome = "failed" =>
    /\ ResourcesStoredFor(ingest.resourceId) = {}
    /\ ChunksStoredFor(ingest.resourceId) = {}

(***************************************************************************)
(* Claims about the traversal of the chat logs.                            *)
(***************************************************************************)
\* The ids a finished traversal returned, as a set.
VisitedIds == { traversal.visited[k] : k \in DOMAIN traversal.visited }

\* C30: a traversal that started without a cursor and has reached its
\* empty page has returned every stored chat log exactly once, whatever
\* createdAt values the logs share.
C30_CursorTraversalVisitsEveryLogOnce ==
  (traversal.pc = "done" /\ traversal.start = NoCursor) =>
    /\ VisitedIds = { row.id : row \in chatLogs }
    /\ Len(traversal.visited) = Cardinality(chatLogs)

=============================================================================
